---- MODULE Spec2Model ----
(***************************************************************************)
(* A model of the NVR core: the recording supervisor and its registry      *)
(* (streaming/recording_manager.py), the stream worker and its registry    *)
(* (streaming/camera_stream_manager.py) and the failsafe monitor           *)
(* (streaming/failsafe_monitor.py), with the Recording table               *)
(* (recordings/models.py) as the ledger.                                   *)
(*                                                                         *)
(* Threads are interleaved at the granularity of the shared reads and      *)
(* writes of the code.  Sleeps and bounded waits are untimed: a bounded    *)
(* join may time out whenever the joined thread has not finished.          *)
(***************************************************************************)
EXTENDS Integers, Sequences, FiniteSets, TLC

\* ------------------------------------------------------------------ bounds
MaxTimeouts == 1     \* joins of a monitor loop that time out
MaxRelaunch == 5     \* relaunch attempts counted per session start
MaxDbFails == 1      \* ledger / camera-lookup errors
MaxCallers == 2      \* threads inside start_recording / start_stream at once
MaxStreams == 2      \* CameraStream objects alive at once

Cams == {1, 2}
Threads == 1..(MaxTimeouts + 1)
Callers == 1..MaxCallers
StreamObjs == 1..MaxStreams
Objs == Threads
Names == {"A", "B"}

Lowest(S) == CHOOSE x \in S : \A y \in S : x <= y
Min(a, b) == IF a < b THEN a ELSE b

\* --------------------------------------------------------------- variables
VARIABLES
  recorders,   \* RecordingManager.recorders: camera id -> recorder object (0: absent)
  rec,         \* CameraRecorder objects: camera_id, is_recording, process, thread
  mon,         \* the _monitor_loop threads: position, recorder, row, processed_files
  ctl,         \* the thread calling start_recording / stop_recording / restart_all
  call,        \* threads inside start_recording at the same time (views, failsafe,
               \* the startup auto-start), each with its position and its recorder
  missed,      \* per monitor thread: loop heads passed with the process exited and
               \* is_recording true since its last relaunch attempt
  timeouts,    \* joins that timed out so far
  relaunches,  \* relaunch attempts of the monitor loops since the last start(),
               \* counted up to MaxRelaunch
  progress,    \* the last answer of RecordingManager.get_progress, with its camera
  failsafe,    \* FailsafeMonitor: is_running, monitor_thread, the _monitor_loop
               \* threads and whether a stop() is waiting in its join
  camname,     \* Camera.name per camera id
  manifest,    \* segments.csv per camera: the rows the encoder has appended
  files,       \* the files under the recordings root
  ledger,      \* the Recording table
  dbfails,     \* ledger / camera-lookup errors so far
  streams,     \* CameraStreamManager.streams: camera id -> stream object (0: absent)
  strm,        \* CameraStream objects: is_running, capture loop, capture, frame
  scall,       \* the threads calling start_stream / stop_stream
  fs,          \* the failsafe thread: its position in the tick, the cameras its
               \* recording-health check has still to visit, what that check saw
  alerts,      \* FailsafeMonitor.alerts
  desired,     \* Camera.is_streaming per camera id
  cfg,         \* the CameraSettings row and the size of the recordings volume
  now          \* the clock, in days

recVars == <<recorders, rec, mon, ctl, timeouts, missed, relaunches>>
ledgerVars == <<camname, manifest, files, ledger, dbfails>>
streamVars == <<streams, strm, scall>>
fsVars == <<fs, alerts, desired, cfg, now>>
nonRecVars == <<call, ledgerVars, streamVars, fsVars, progress, failsafe>>
vars == <<recVars, call, ledgerVars, streamVars, fsVars, progress, failsafe>>

\* ------------------------------------------------------------------ ledger
\* A segment file name "{cameraName}_{YYYY-mm-dd_HH-MM-SS}.mp4": the camera's name
\* and the second the segment started at.
Filename(name, ts) == <<name, ts>>

\* camera_dir / filename, camera_dir being <root>/camera_{id}
Filepath(cam, filename) == <<cam, filename>>

\* One line of segments.csv as csv.reader returns it: filename,start,end.  cols is
\* len(row); eol tells whether the writer has finished the line (the reader does
\* not see it); a column whose text is empty or missing is -1.
Row(filename, st, en) == [name |-> filename, st |-> st, en |-> en, cols |-> 3, eol |-> TRUE]

\* The start time _save_recording_db parses out of the file name
ParseStart(filename) == filename[2]

\* Recording.objects.filter(filename=filename).exists()
ExistsByFilename(L, filename) == \E q \in L : q.filename = filename

\* Recording.objects.create without the UNIQUE(filename) constraint
CreateNoUnique(L, r) ==
  L \cup {[r EXCEPT !.pk = Cardinality({q \in L : q.filename = r.filename}) + 1]}

\* Recording.objects.update_or_create(filename=...): an existing row is rewritten
CreateOrUpdate(L, r) ==
  {q \in L : q.filename # r.filename} \cup {[r EXCEPT !.pk = 1]}

\* Recording.objects.create(...): filename is unique=True, so a second row with an
\* existing filename raises IntegrityError and the table is unchanged.  pk tells
\* rows of one filename apart.
LedgerCreate(L, r) ==
  IF ExistsByFilename(L, r.filename)
  THEN L
  ELSE L \cup {[r EXCEPT !.pk = 1]}

\* The row _save_recording_db builds for a manifest line; when float() raises on
\* a column the duration is segment_duration (lines 206-212)
SegmentRecord(cam, row) ==
  [pk |-> 0, camera |-> cam, filename |-> row.name,
   filepath |-> Filepath(cam, row.name),
   start_time |-> ParseStart(row.name),
   duration |-> IF row.st < 0 \/ row.en < 0 THEN cfg.segment_duration
                ELSE row.en - row.st,
   file_size |-> IF \E f \in files : f.path = Filepath(cam, row.name)
                 THEN (CHOOSE f \in files : f.path = Filepath(cam, row.name)).size
                 ELSE 0]

\* ---------------------------------------------------------------- recorder
None == -1
\* segment_duration is self.segment_duration, the value _load_settings last read
\* and the -segment_time of every launch (300 before anything was read)
NoRecorder == [cam |-> 0, is_recording |-> FALSE, process |-> "none", thread |-> 0,
               stray |-> FALSE, current_segment_start |-> None, segment_duration |-> 300]
NoThread == [pc |-> "done", obj |-> 0, i |-> 0, processed |-> {}]
Idle == [pc |-> "idle", op |-> "none", obj |-> 0]
\* FailsafeMonitor.__init__, lines 34-36: not running, no thread
MaxLoops == 3
Loops == 1..MaxLoops
FailsafeIdle == [is_running |-> FALSE, monitor_thread |-> 0, stopping |-> FALSE,
                 loop |-> [l \in Loops |-> "none"]]

\* Nobody has asked for a camera's progress yet
NoProgress == [cam |-> 0, progress |-> 0, elapsed |-> 0, total |-> 0]

Alive(t) == mon[t].pc # "done"

\* self.thread and self.thread.is_alive()
ThreadAlive(o) ==
  /\ rec[o].thread # 0
  /\ Alive(rec[o].thread)
  /\ mon[rec[o].thread].obj = o

\* The recorders a call in progress holds
Held == {ctl.obj} \cup {call[k].obj : k \in Callers}

\* Recorder objects nothing refers to any more
FreeObjs ==
  {o \in Objs : /\ \A c \in Cams : recorders[c] # o
                /\ \A t \in Threads : Alive(t) => mon[t].obj # o
                /\ o \notin Held}

FreeThreads == {t \in Threads : ~Alive(t)}

\* The recorders as they are once the ones nothing refers to any more (no registry
\* entry, no running monitor loop, no caller holding one) are garbage
Collected(recFn, regFn, monFn, held) ==
  [o \in Objs |->
     IF /\ \A c \in Cams : regFn[c] # o
        /\ \A t \in Threads : monFn[t].pc # "done" => monFn[t].obj # o
        /\ o \notin held
     THEN NoRecorder
     ELSE recFn[o]]

\* self.process is overwritten or cleared: a process it referred to that is still
\* running keeps running with nothing referring to it
Dropped(r) == r.stray \/ r.process = "run"

\* subprocess.Popen succeeded: self.process is the new process
Launched(r) == [r EXCEPT !.process = "run", !.stray = Dropped(r)]

\* threading.Thread(target=self._monitor_loop).start()
Spawn(m, t, o) == [m EXCEPT ![t] = [pc |-> "head", obj |-> o, i |-> 0, processed |-> {}]]

\* ------------------------------------------------------- _monitor_loop steps
\* A supervision branch that relaunches only a missing process, never an exited one
HeadNoPoll(t) ==
  /\ mon[t].pc = "head"
  /\ LET o == mon[t].obj IN
       IF rec[o].is_recording
       THEN /\ mon' = [mon EXCEPT ![t].pc = IF rec[o].process = "none" THEN "relaunch"
                                            ELSE "tail",
                                  ![t].i = 1]
            /\ missed' = [missed EXCEPT ![t] =
                            IF rec[o].process # "run" THEN Min(@ + 1, 2) ELSE 0]
            /\ UNCHANGED rec
       ELSE /\ mon' = [mon EXCEPT ![t] = NoThread]
            /\ missed' = [missed EXCEPT ![t] = 0]
            /\ rec' = Collected(rec, recorders, [mon EXCEPT ![t] = NoThread], Held)
  /\ UNCHANGED <<recorders, ctl, relaunches, timeouts, nonRecVars>>

\* lines 240-249: while self.is_recording; when the process is missing or has
\* exited the loop goes on to sleep and relaunch, otherwise to the manifest.
\* The loop ends only here, on reading is_recording false.
MonHead(t) ==
  /\ mon[t].pc = "head"
  /\ LET o == mon[t].obj IN
       IF rec[o].is_recording
       THEN /\ mon' = [mon EXCEPT ![t].pc = IF rec[o].process # "run" THEN "relaunch"
                                            ELSE "tail",
                                  ![t].i = 1]
            /\ missed' = [missed EXCEPT ![t] =
                            IF rec[o].process # "run" THEN Min(@ + 1, 2) ELSE 0]
            /\ UNCHANGED rec
       ELSE /\ mon' = [mon EXCEPT ![t] = NoThread]
            /\ missed' = [missed EXCEPT ![t] = 0]
            /\ rec' = Collected(rec, recorders, [mon EXCEPT ![t] = NoThread], Held)
  /\ UNCHANGED <<recorders, ctl, relaunches, timeouts, nonRecVars>>

\* A relaunch that gives up on failure: the loop clears is_recording and ends
RelaunchGiveUp(t) ==
  /\ mon[t].pc = "relaunch"
  /\ LET o == mon[t].obj IN
       \/ /\ rec' = [rec EXCEPT ![o] = Launched(@)]
          /\ mon' = [mon EXCEPT ![t].pc = "tail", ![t].i = 1]
          /\ missed' = [t2 \in Threads |-> 0]
       \/ /\ rec' = Collected([rec EXCEPT ![o].is_recording = FALSE], recorders,
                              [mon EXCEPT ![t] = NoThread], {ctl.obj})
          /\ mon' = [mon EXCEPT ![t] = NoThread]
          /\ missed' = [missed EXCEPT ![t] = 0]
  /\ relaunches' = Min(relaunches + 1, MaxRelaunch)
  /\ UNCHANGED <<recorders, ctl, timeouts, nonRecVars>>

\* lines 251-252: time.sleep(2); self._start_ffmpeg_process(), which returns
\* False and leaves self.process as it is when the camera lookup or Popen raises
MonRelaunch(t) ==
  /\ mon[t].pc = "relaunch"
  /\ LET o == mon[t].obj IN
       \/ /\ rec' = [rec EXCEPT ![o] = Launched(@)]
          /\ missed' = [t2 \in Threads |-> 0]
       \/ /\ missed' = [missed EXCEPT ![t] = 0]
          /\ UNCHANGED rec
  /\ mon' = [mon EXCEPT ![t].pc = "tail", ![t].i = 1]
  /\ relaunches' = Min(relaunches + 1, MaxRelaunch)
  /\ UNCHANGED <<recorders, ctl, timeouts, nonRecVars>>

\* The reader raises on line i of the file (csv.Error, UnicodeDecodeError): the
\* exception leaves the for loop and is swallowed at lines 277-278
Unreadable(rows, i) == IF i \in DOMAIN rows THEN rows[i].cols < 0 ELSE FALSE

\* lines 254-276, one row of the manifest: rows already processed and rows with
\* fewer than three columns are passed over; _is_file_in_db answers False when
\* the query raises; a row taken up sets current_segment_start (line 276).
\* Past the last row the loop sleeps and goes back to line 240.
MonRow(t) ==
  /\ mon[t].pc = "tail"
  /\ LET o == mon[t].obj
         rows == manifest[rec[o].cam]
         i == mon[t].i
     IN IF i > Len(rows) \/ Unreadable(rows, i)
        THEN /\ mon' = [mon EXCEPT ![t].pc = "head", ![t].i = 0]
             /\ UNCHANGED <<dbfails, rec>>
        ELSE IF rows[i].name \in mon[t].processed \/ rows[i].cols < 3
        THEN /\ mon' = [mon EXCEPT ![t].i = i + 1]
             /\ UNCHANGED <<dbfails, rec>>
        ELSE \/ /\ ExistsByFilename(ledger, rows[i].name)
                /\ mon' = [mon EXCEPT ![t].i = i + 1,
                                      ![t].processed = @ \cup {rows[i].name}]
                /\ rec' = [rec EXCEPT ![o].current_segment_start = now]
                /\ UNCHANGED dbfails
             \/ /\ ~ExistsByFilename(ledger, rows[i].name)
                /\ mon' = [mon EXCEPT ![t].pc = "save"]
                /\ UNCHANGED <<dbfails, rec>>
             \/ /\ dbfails < MaxDbFails
                /\ dbfails' = dbfails + 1
                /\ mon' = [mon EXCEPT ![t].pc = "save"]
                /\ UNCHANGED rec
  /\ UNCHANGED <<recorders, ctl, timeouts, missed, relaunches, call, streamVars, camname, progress, failsafe, manifest, files, ledger, fsVars>>

\* lines 274-275: _save_recording_db, which logs and swallows every exception
\* (camera lookup, IntegrityError), then processed_files.add(filename) and
\* line 276: self.current_segment_start = datetime.now()
MonSave(t) ==
  /\ mon[t].pc = "save"
  /\ LET o == mon[t].obj
         row == manifest[rec[o].cam][mon[t].i]
     IN /\ \/ /\ ledger' = LedgerCreate(ledger, SegmentRecord(rec[o].cam, row))
              /\ UNCHANGED dbfails
           \/ /\ dbfails < MaxDbFails
              /\ dbfails' = dbfails + 1
              /\ UNCHANGED ledger
        /\ mon' = [mon EXCEPT ![t].pc = "tail", ![t].i = @ + 1,
                              ![t].processed = @ \cup {row.name}]
        /\ rec' = [rec EXCEPT ![o].current_segment_start = now]
  /\ UNCHANGED <<recorders, ctl, timeouts, missed, relaunches, call, streamVars, camname, progress, failsafe, manifest, files, fsVars>>

\* ------------------------------------------------- the encode process itself
\* The encode process exits on its own (camera unreachable, killed, ...)
Crash(o) ==
  /\ rec[o].process = "run"
  /\ rec' = [rec EXCEPT ![o].process = "dead"]
  /\ missed' = [t \in Threads |-> 0]
  /\ UNCHANGED <<recorders, mon, ctl, relaunches, timeouts, nonRecVars>>

\* ------------------------------------- RecordingManager calls, step by step
LowestFree == CHOOSE o \in FreeObjs : \A p \in FreeObjs : o <= p
LowestFreeThread == CHOOSE t \in FreeThreads : \A u \in FreeThreads : t <= u

\* start_recording without lines 320-322: the registered recorder is started again
StartAgain(c) ==
  /\ ctl.pc = "idle"
  /\ IF recorders[c] # 0
     THEN /\ rec' = [rec EXCEPT ![recorders[c]].is_recording = TRUE,
                                ![recorders[c]].segment_duration = cfg.segment_duration]
          /\ ctl' = [pc |-> "launch", op |-> "start", obj |-> recorders[c]]
          /\ UNCHANGED <<recorders, relaunches>>
     ELSE /\ FreeObjs # {}
          /\ recorders' = [recorders EXCEPT ![c] = LowestFree]
          /\ rec' = [rec EXCEPT ![LowestFree] =
                       [NoRecorder EXCEPT !.cam = c, !.is_recording = TRUE, !.segment_duration = cfg.segment_duration]]
          /\ ctl' = [pc |-> "launch", op |-> "start", obj |-> LowestFree]
          /\ relaunches' = 0
  /\ UNCHANGED <<mon, missed, timeouts, nonRecVars>>

\* start_recording, lines 320-326, and CameraRecorder.start, lines 125-131: a
\* camera already in the registry returns True at once; otherwise a recorder is
\* made and registered, the settings are loaded and is_recording is set.
CtlStartRecording(c) ==
  /\ ctl.pc = "idle"
  /\ IF recorders[c] # 0
     THEN UNCHANGED <<recorders, rec, ctl, relaunches>>
     ELSE /\ FreeObjs # {}
          /\ recorders' = [recorders EXCEPT ![c] = LowestFree]
          /\ rec' = [rec EXCEPT ![LowestFree] =
                       [NoRecorder EXCEPT !.cam = c, !.is_recording = TRUE, !.segment_duration = cfg.segment_duration]]
          /\ ctl' = [pc |-> "launch", op |-> "start", obj |-> LowestFree]
          /\ relaunches' = 0
  /\ UNCHANGED <<mon, missed, timeouts, nonRecVars>>

\* CameraRecorder.start, lines 133-140: the launch and, when it succeeds, the
\* monitor thread; when it fails is_recording is cleared and no thread is started.
CtlLaunch ==
  /\ ctl.pc = "launch"
  /\ LET o == ctl.obj IN
       \/ /\ FreeThreads # {}
          /\ rec' = [rec EXCEPT ![o] = [Launched(@) EXCEPT !.thread = LowestFreeThread]]
          /\ mon' = Spawn(mon, LowestFreeThread, o)
          /\ missed' = [t \in Threads |-> 0]
       \/ /\ rec' = [rec EXCEPT ![o].is_recording = FALSE]
          /\ UNCHANGED <<mon, missed>>
  /\ ctl' = Idle
  /\ UNCHANGED <<recorders, relaunches, timeouts, nonRecVars>>

\* stop_recording, lines 335-336, and CameraRecorder.stop, line 144
CtlStopRecording(c) ==
  /\ ctl.pc = "idle"
  /\ recorders[c] # 0
  /\ rec' = [rec EXCEPT ![recorders[c]].is_recording = FALSE]
  /\ ctl' = [pc |-> "term", op |-> "stop", obj |-> recorders[c]]
  /\ UNCHANGED <<recorders, mon, missed, relaunches, timeouts, nonRecVars>>

\* restart_all_recordings, lines 352-355, for one recorder that is recording:
\* recorder.stop() begins
CtlRestartAll(c) ==
  /\ ctl.pc = "idle"
  /\ recorders[c] # 0
  /\ rec[recorders[c]].is_recording
  /\ rec' = [rec EXCEPT ![recorders[c]].is_recording = FALSE]
  /\ ctl' = [pc |-> "term", op |-> "restart", obj |-> recorders[c]]
  /\ UNCHANGED <<recorders, mon, missed, relaunches, timeouts, nonRecVars>>

\* CameraRecorder.stop, lines 146-151: terminate, wait up to 5 s, kill
CtlTerminate ==
  /\ ctl.pc = "term"
  /\ IF rec[ctl.obj].process # "none"
     THEN /\ rec' = [rec EXCEPT ![ctl.obj].process = "dead"]
          /\ ctl' = [ctl EXCEPT !.pc = "clear"]
     ELSE /\ ctl' = [ctl EXCEPT !.pc = "join"]
          /\ UNCHANGED rec
  /\ UNCHANGED <<recorders, mon, missed, relaunches, timeouts, nonRecVars>>

\* CameraRecorder.stop, line 152: self.process = None
CtlClear ==
  /\ ctl.pc = "clear"
  /\ rec' = [rec EXCEPT ![ctl.obj].process = "none", ![ctl.obj].stray = Dropped(rec[ctl.obj])]
  /\ ctl' = [ctl EXCEPT !.pc = "join"]
  /\ UNCHANGED <<recorders, mon, missed, relaunches, timeouts, nonRecVars>>

\* CameraRecorder.stop, lines 154-155: join(timeout=2) returns when the thread
\* has ended or the two seconds are over; then stop_recording deletes the
\* registry entry (line 337) and restart_all_recordings pauses (line 357).
CtlJoin ==
  /\ ctl.pc = "join"
  /\ IF ThreadAlive(ctl.obj)
     THEN /\ timeouts < MaxTimeouts
          /\ timeouts' = timeouts + 1
     ELSE UNCHANGED timeouts
  /\ IF ctl.op = "stop"
     THEN /\ recorders' = [c \in Cams |-> IF recorders[c] = ctl.obj THEN 0 ELSE recorders[c]]
          /\ rec' = Collected(rec, [c \in Cams |-> IF recorders[c] = ctl.obj THEN 0
                                                   ELSE recorders[c]], mon,
                           {call[k].obj : k \in Callers})
          /\ ctl' = Idle
     ELSE /\ ctl' = [ctl EXCEPT !.pc = "pause"]
          /\ UNCHANGED <<recorders, rec>>
  /\ UNCHANGED <<mon, missed, relaunches, nonRecVars>>

\* restart_all_recordings, line 358: recorder.start(None), lines 125-131
CtlRestartStart ==
  /\ ctl.pc = "pause"
  /\ IF rec[ctl.obj].is_recording
     THEN /\ ctl' = Idle
          /\ UNCHANGED <<rec, relaunches>>
     ELSE /\ rec' = [rec EXCEPT ![ctl.obj].is_recording = TRUE,
                                ![ctl.obj].segment_duration = cfg.segment_duration]
          /\ ctl' = [ctl EXCEPT !.pc = "launch"]
          /\ relaunches' = 0
  /\ UNCHANGED <<recorders, mon, missed, timeouts, nonRecVars>>

\* ------------------------------------------------------------ camera streams
NoStream == [cam |-> 0, is_running |-> FALSE, loop |-> "none", capture |-> "none",
             reconnect_attempts |-> 0, frame |-> "none"]
SIdle == [pc |-> "idle", op |-> "none", obj |-> 0, cam |-> 0]

\* ------------------------------------------------------------ failsafe monitor
\* The failsafe thread asleep between two ticks
FsIdle == [pc |-> "sleep", todo |-> {}, seen |-> {}, failed |-> FALSE]

\* ----------------------------------------- one camera's recording session
RecCam == 1

\* RecordingManager.__init__: no recorder, no thread, nobody calling
RecStart ==
  /\ recorders = [c \in Cams |-> 0]
  /\ rec = [o \in Objs |-> NoRecorder]
  /\ mon = [t \in Threads |-> NoThread]
  /\ ctl = Idle
  /\ call = [k \in Callers |-> Idle]
  /\ timeouts = 0
  /\ missed = [t \in Threads |-> 0]
  /\ relaunches = 0
  /\ progress = NoProgress
  /\ failsafe = FailsafeIdle

\* Two cameras, an empty recordings root, an empty Recording table
LedgerStart ==
  /\ camname = [c \in Cams |-> IF c = 1 THEN "A" ELSE "B"]
  /\ manifest = [c \in Cams |-> <<>>]
  /\ files = {}
  /\ ledger = {}
  /\ dbfails = 0

\* CameraStreamManager.__init__: no stream, nobody calling
StreamStart ==
  /\ streams = [c \in Cams |-> 0]
  /\ strm = [o \in StreamObjs |-> NoStream]
  /\ scall = [k \in Callers |-> SIdle]

\* The defaults of the CameraSettings fields, on a volume of 200 GB
DefaultSettings ==
  [segment_duration |-> 300, retention_days |-> 7, max_storage_gb |-> 100,
   video_format |-> "mp4", capacity |-> 200]

\* FailsafeMonitor.__init__, the defaults of Camera.is_streaming and of the
\* CameraSettings fields, and a volume with room to spare
FsStart ==
  /\ fs = FsIdle
  /\ alerts = <<>>
  /\ desired = [c \in Cams |-> FALSE]
  /\ cfg = DefaultSettings
  /\ now = 0

InitRec == RecStart /\ LedgerStart /\ StreamStart /\ FsStart

NextRec ==
  \/ CtlStartRecording(RecCam)
  \/ CtlStopRecording(RecCam)
  \/ CtlRestartAll(RecCam)
  \/ CtlLaunch
  \/ CtlTerminate
  \/ CtlClear
  \/ CtlJoin
  \/ CtlRestartStart
  \/ \E t \in Threads : MonHead(t)
  \/ \E t \in Threads : MonRelaunch(t)
  \/ \E t \in Threads : MonRow(t)
  \/ \E o \in Objs : Crash(o)

SpecRec == InitRec /\ [][NextRec]_vars

\* update_settings_json: the segment duration is saved, nothing is restarted
SegmentDurations == {60, 300}
UpdateSettings ==
  /\ \E d \in SegmentDurations \ {cfg.segment_duration} :
       cfg' = [cfg EXCEPT !.segment_duration = d]
  /\ UNCHANGED <<recVars, call, ledgerVars, progress, failsafe, streamVars, fs, alerts, desired, now>>

\* One camera's session with the settings changed at any moment
NextSettings ==
  \/ NextRec
  \/ UpdateSettings

SpecSettings == InitRec /\ [][NextSettings]_vars

\* ------------------------------- start_recording from several threads at once
\* start_recording, line 320: if camera_id in self.recorders: return True
CallCheck(k, c) ==
  /\ call[k].pc = "idle"
  /\ ctl.pc = "idle"
  /\ call' = [call EXCEPT ![k].pc = IF recorders[c] # 0 THEN "idle" ELSE "create"]
  /\ UNCHANGED <<recVars, ledgerVars, progress, failsafe, streamVars, fsVars>>

\* start_recording, lines 324-325, and CameraRecorder.start, lines 125-131: the
\* recorder is made (its constructor queries the settings), put in the registry
\* whatever the registry holds by now, and is_recording is set
CallCreate(k, c) ==
  /\ call[k].pc = "create"
  /\ FreeObjs # {}
  /\ recorders' = [recorders EXCEPT ![c] = LowestFree]
  /\ rec' = [rec EXCEPT ![LowestFree] =
               [NoRecorder EXCEPT !.cam = c, !.is_recording = TRUE, !.segment_duration = cfg.segment_duration]]
  /\ call' = [call EXCEPT ![k] = [pc |-> "launch", op |-> "start", obj |-> LowestFree]]
  /\ UNCHANGED <<mon, ctl, timeouts, missed, relaunches, ledgerVars, progress, failsafe, streamVars, fsVars>>

\* CameraRecorder.start, lines 133-140, then start_recording returns True
CallLaunch(k) ==
  /\ call[k].pc = "launch"
  /\ LET o == call[k].obj IN
       \/ /\ FreeThreads # {}
          /\ rec' = [rec EXCEPT ![o] = [Launched(@) EXCEPT !.thread = LowestFreeThread]]
          /\ mon' = Spawn(mon, LowestFreeThread, o)
          /\ missed' = [t \in Threads |-> 0]
       \/ /\ rec' = [rec EXCEPT ![o].is_recording = FALSE]
          /\ UNCHANGED <<mon, missed>>
  /\ call' = [call EXCEPT ![k] = Idle]
  /\ UNCHANGED <<recorders, ctl, timeouts, relaunches, ledgerVars, progress, failsafe, streamVars, fsVars>>

NextRace ==
  \/ \E k \in Callers : CallCheck(k, RecCam)
  \/ \E k \in Callers : CallCreate(k, RecCam)
  \/ \E k \in Callers : CallLaunch(k)
  \/ CtlStopRecording(RecCam)
  \/ CtlTerminate
  \/ CtlClear
  \/ CtlJoin
  \/ \E t \in Threads : MonHead(t)
  \/ \E t \in Threads : MonRelaunch(t)
  \/ \E t \in Threads : MonRow(t)
  \/ \E o \in Objs : Crash(o)

SpecRace == InitRec /\ [][NextRace]_vars

\* The recorders of camera c that have a running encode process and a monitor loop
Sessions(c) ==
  {o \in Objs : /\ rec[o].cam = c
                /\ rec[o].process = "run"
                /\ \E t \in Threads : Alive(t) /\ mon[t].obj = o}

\* ------------------------------------------- the stream registry and its workers
max_reconnect_attempts == 5

SHeld == {scall[k].obj : k \in Callers}

\* Stream objects nothing refers to any more
FreeStreams ==
  {o \in StreamObjs : /\ \A c \in Cams : streams[c] # o
                      /\ strm[o].loop # "run"
                      /\ o \notin SHeld}

LowestFreeStream == CHOOSE o \in FreeStreams : \A p \in FreeStreams : o <= p

\* The stream objects once the unreferenced ones are garbage
SCollected(strmFn, regFn, held) ==
  [o \in StreamObjs |->
     IF /\ \A c \in Cams : regFn[c] # o
        /\ strmFn[o].loop # "run"
        /\ o \notin held
     THEN NoStream
     ELSE strmFn[o]]

\* is_alive without lines 112-114: a running worker counts as alive
AliveNoFrame(o) == strm[o].is_running

\* CameraStream.is_alive
is_alive(o) == strm[o].is_running /\ strm[o].frame = "fresh"

\* CameraStreamManager.is_streaming
is_streaming(c) == streams[c] # 0 /\ is_alive(streams[c])

\* The connect step without line 75: a successful open keeps the failure count
ConnectNoReset(o) ==
  /\ strm[o].loop = "run"
  /\ strm[o].is_running
  /\ strm[o].capture = "none"
  /\ \/ strm' = [strm EXCEPT ![o].capture = "open"]
     \/ /\ strm[o].reconnect_attempts + 1 < max_reconnect_attempts
        /\ strm' = [strm EXCEPT ![o].reconnect_attempts = @ + 1]
     \/ /\ strm[o].reconnect_attempts + 1 >= max_reconnect_attempts
        /\ strm' = SCollected([strm EXCEPT ![o].reconnect_attempts = @ + 1,
                                           ![o].is_running = FALSE,
                                           ![o].loop = "done"], streams, SHeld)
  /\ UNCHANGED <<streams, scall, recVars, call, ledgerVars, progress, failsafe, fsVars>>

\* _capture_frames, lines 55-76: the loop head and the connect step
CapConnect(o) ==
  /\ strm[o].loop = "run"
  /\ strm[o].is_running
  /\ strm[o].capture = "none"
  /\ \/ strm' = [strm EXCEPT ![o].capture = "open", ![o].reconnect_attempts = 0]
     \/ /\ strm[o].reconnect_attempts + 1 < max_reconnect_attempts
        /\ strm' = [strm EXCEPT ![o].reconnect_attempts = @ + 1]
     \/ /\ strm[o].reconnect_attempts + 1 >= max_reconnect_attempts
        /\ strm' = SCollected([strm EXCEPT ![o].reconnect_attempts = @ + 1,
                                           ![o].is_running = FALSE,
                                           ![o].loop = "done"], streams, SHeld)
  /\ UNCHANGED <<streams, scall, recVars, call, ledgerVars, progress, failsafe, fsVars>>

\* _capture_frames, lines 58-76: the connect step reaching a source that accepts
\* the session and then sends nothing: isOpened() is true, the count is reset
CapConnectMute(o) ==
  /\ strm[o].loop = "run"
  /\ strm[o].is_running
  /\ strm[o].capture = "none"
  /\ strm' = [strm EXCEPT ![o].capture = "mute", ![o].reconnect_attempts = 0]
  /\ UNCHANGED <<streams, scall, recVars, call, ledgerVars, progress, failsafe, fsVars>>

\* _capture_frames, lines 78-95: the read step with an open capture.  The read
\* delivers a frame or fails; a capture that is "mute" is open and delivers
\* nothing.  A failed read releases the capture only when last_frame_time is set
\* and older than the window (frame = "stale").
CapRead(o) ==
  /\ strm[o].loop = "run"
  /\ strm[o].is_running
  /\ strm[o].capture \in {"open", "mute"}
  /\ \/ /\ strm[o].capture = "open"
        /\ strm' = [strm EXCEPT ![o].frame = "fresh"]
     \/ strm' = [strm EXCEPT ![o].capture = IF strm[o].frame = "stale" THEN "none" ELSE @]
  /\ UNCHANGED <<streams, scall, recVars, call, ledgerVars, progress, failsafe, fsVars>>

\* _capture_frames, line 55: the loop reads is_running false and ends
CapExit(o) ==
  /\ strm[o].loop = "run"
  /\ ~strm[o].is_running
  /\ strm' = SCollected([strm EXCEPT ![o].loop = "done"], streams, SHeld)
  /\ UNCHANGED <<streams, scall, recVars, call, ledgerVars, progress, failsafe, fsVars>>

\* The liveness window (10 s) passes without a new frame
FrameAges(o) ==
  /\ strm[o].frame = "fresh"
  /\ strm' = [strm EXCEPT ![o].frame = "stale"]
  /\ UNCHANGED <<streams, scall, recVars, call, ledgerVars, progress, failsafe, fsVars>>

\* start_stream, lines 145-146 with stop_stream, lines 163-164: an existing stream
\* is stopped first
SCallStart(k, c) ==
  /\ scall[k].pc = "idle"
  /\ scall' = [scall EXCEPT ![k] =
                 IF streams[c] # 0
                 THEN [pc |-> "flag", op |-> "start", obj |-> streams[c], cam |-> c]
                 ELSE [pc |-> "create", op |-> "start", obj |-> 0, cam |-> c]]
  /\ UNCHANGED <<streams, strm, recVars, call, ledgerVars, progress, failsafe, fsVars>>

\* stop_stream, lines 163-164
SCallStop(k, c) ==
  /\ scall[k].pc = "idle"
  /\ scall' = [scall EXCEPT ![k] =
                 IF streams[c] # 0
                 THEN [pc |-> "flag", op |-> "stop", obj |-> streams[c], cam |-> c]
                 ELSE SIdle]
  /\ UNCHANGED <<streams, strm, recVars, call, ledgerVars, progress, failsafe, fsVars>>

\* CameraStream.stop, line 46
SFlag(k) ==
  /\ scall[k].pc = "flag"
  /\ strm' = [strm EXCEPT ![scall[k].obj].is_running = FALSE]
  /\ scall' = [scall EXCEPT ![k].pc = "join"]
  /\ UNCHANGED <<streams, recVars, call, ledgerVars, progress, failsafe, fsVars>>

\* CameraStream.stop, lines 47-51 (the join returns when the loop has ended or
\* after its timeout; the capture is released), then stop_stream, line 165:
\* del self.streams[camera_id] raises KeyError when the entry is gone
SJoinDel(k) ==
  /\ scall[k].pc = "join"
  /\ LET o == scall[k].obj
         c == scall[k].cam
         released == [strm EXCEPT ![o].capture = "none"]
         after == [scall EXCEPT ![k] =
                     IF streams[c] = 0 THEN [SIdle EXCEPT !.pc = "failed", !.op = scall[k].op]
                     ELSE IF scall[k].op = "start"
                          THEN [pc |-> "create", op |-> "start", obj |-> 0, cam |-> c]
                          ELSE SIdle]
     IN /\ scall' = after
        /\ streams' = [streams EXCEPT ![c] = 0]
        /\ strm' = SCollected(released, streams', {after[j].obj : j \in Callers})
  /\ UNCHANGED <<recVars, call, ledgerVars, progress, failsafe, fsVars>>

\* start_stream, lines 157-159 (returns False), or the error leaves stop_stream
SFailed(k) ==
  /\ scall[k].pc = "failed"
  /\ scall' = [scall EXCEPT ![k] = SIdle]
  /\ UNCHANGED <<streams, strm, recVars, call, ledgerVars, progress, failsafe, fsVars>>

\* start_stream, lines 149-156, with CameraStream.start, lines 33-42
SCreate(k) ==
  /\ scall[k].pc = "create"
  /\ FreeStreams # {}
  /\ streams' = [streams EXCEPT ![scall[k].cam] = LowestFreeStream]
  /\ strm' = SCollected([strm EXCEPT ![LowestFreeStream] =
                          [NoStream EXCEPT !.cam = scall[k].cam, !.is_running = TRUE,
                                           !.loop = "run"]],
                        streams', SHeld)
  /\ scall' = [scall EXCEPT ![k] = SIdle]
  /\ UNCHANGED <<recVars, call, ledgerVars, progress, failsafe, fsVars>>

NextStream ==
  \/ \E k \in Callers : SCallStart(k, RecCam)
  \/ \E k \in Callers : SCallStop(k, RecCam)
  \/ \E k \in Callers : SFlag(k)
  \/ \E k \in Callers : SJoinDel(k)
  \/ \E k \in Callers : SFailed(k)
  \/ \E k \in Callers : SCreate(k)
  \/ \E o \in StreamObjs : CapConnect(o)
  \/ \E o \in StreamObjs : CapRead(o)
  \/ \E o \in StreamObjs : CapExit(o)
  \/ \E o \in StreamObjs : FrameAges(o)

SpecStream == InitRec /\ [][NextStream]_vars

\* One caller at a time: the requests of a single thread and the workers
NextWorker ==
  \/ \E c \in Cams : SCallStart(1, c)
  \/ \E c \in Cams : SCallStop(1, c)
  \/ SFlag(1)
  \/ SJoinDel(1)
  \/ SCreate(1)
  \/ \E o \in StreamObjs : CapConnect(o)
  \/ \E o \in StreamObjs : CapRead(o)
  \/ \E o \in StreamObjs : CapExit(o)
  \/ \E o \in StreamObjs : FrameAges(o)

SpecWorker == InitRec /\ [][NextWorker]_vars

\* The same with sources that open and stay silent.  The worker is a thread of its
\* own that only sleeps for bounded times, so each of its steps is eventually
\* taken, and time passes
NextCapture ==
  \/ NextWorker
  \/ \E o \in StreamObjs : CapConnectMute(o)

SpecCapture ==
  /\ InitRec
  /\ [][NextCapture]_vars
  /\ \A o \in StreamObjs :
       /\ WF_vars(CapConnect(o)) /\ WF_vars(CapConnectMute(o))
       /\ WF_vars(CapRead(o)) /\ WF_vars(CapExit(o)) /\ WF_vars(FrameAges(o))

\* The stream objects of camera c whose capture loop is running
Capturing(c) ==
  {o \in StreamObjs : strm[o].cam = c /\ strm[o].is_running /\ strm[o].loop = "run"}

\* ----------------------------------------------------------- the failsafe tick
MaxAlerts == 2
AlertCap == 100
CriticalFloorGb == 2
RetentionBatch == 50
SoftPurgeBatch == 20
ForcePurgeBatch == 100
OrphanDuration == 300

\* RecordingManager.is_recording
IsRecording(c) == recorders[c] # 0 /\ rec[recorders[c]].is_recording

\* _add_alert without lines 323-325: the list is never trimmed
AddNoCap(A, a) == Append(A, a)

\* _add_alert: append, then keep the last 100
add_alert(A, a) ==
  LET B == Append(A, a)
  IN IF Len(B) > AlertCap THEN SubSeq(B, Len(B) - AlertCap + 1, Len(B)) ELSE B

\* time.sleep(check_interval) is over: the next tick begins
FsWake ==
  /\ fs.pc = "sleep"
  /\ Len(alerts) < MaxAlerts
  /\ fs' = [pc |-> "health", todo |-> {c \in Cams : desired[c]}, seen |-> {},
            failed |-> FALSE]
  /\ UNCHANGED <<recVars, call, ledgerVars, progress, failsafe, streamVars, alerts, desired, cfg, now>>

\* _check_recording_health, lines 80-108, for the next camera of the query; the
\* whole of start_recording (lines 320-328) and CameraRecorder.start is inside.
\* seen and failed record what the check met: the cameras it found streaming,
\* and whether a launch of the encode process failed in this tick.  In the last
\* branch CameraRecorder(...) raises (its mkdir, line 39): start_recording
\* catches it and returns False (lines 329-331), and nothing else happens.
FsHealth ==
  /\ fs.pc = "health"
  /\ IF fs.todo = {}
     THEN /\ fs' = [fs EXCEPT !.pc = "disk"]
          /\ UNCHANGED <<recorders, rec, mon, missed, relaunches, alerts, dbfails>>
     ELSE LET c == Lowest(fs.todo) IN
       IF is_streaming(c) /\ ~IsRecording(c)
       THEN \/ \E ok \in BOOLEAN, saved \in BOOLEAN :
                 /\ ~saved => dbfails < MaxDbFails
                 /\ IF recorders[c] # 0
                    THEN /\ ok
                         /\ UNCHANGED <<recorders, rec, mon, missed, relaunches>>
                    ELSE /\ FreeObjs # {}
                         /\ ok => FreeThreads # {}
                         /\ recorders' = [recorders EXCEPT ![c] = LowestFree]
                         /\ rec' = [rec EXCEPT ![LowestFree] =
                                      IF ok
                                      THEN [Launched([NoRecorder EXCEPT !.cam = c,
                                                                        !.is_recording = TRUE,
                                                                        !.segment_duration = cfg.segment_duration])
                                              EXCEPT !.thread = LowestFreeThread]
                                      ELSE [NoRecorder EXCEPT !.cam = c, !.segment_duration = cfg.segment_duration]]
                         /\ mon' = IF ok THEN Spawn(mon, LowestFreeThread, LowestFree) ELSE mon
                         /\ missed' = IF ok THEN [t \in Threads |-> 0] ELSE missed
                         /\ relaunches' = 0
                 /\ alerts' = add_alert(alerts,
                                [type |-> IF saved THEN "recording_recovered"
                                          ELSE "recording_failed", camera |-> c])
                 /\ dbfails' = IF saved THEN dbfails ELSE dbfails + 1
                 /\ fs' = [fs EXCEPT !.todo = @ \ {c}, !.seen = @ \cup {c},
                                     !.failed = @ \/ ~ok]
            \/ /\ recorders[c] = 0
               /\ fs' = [fs EXCEPT !.todo = @ \ {c}, !.seen = @ \cup {c}, !.failed = TRUE]
               /\ UNCHANGED <<recorders, rec, mon, missed, relaunches, alerts, dbfails>>
       ELSE /\ fs' = [fs EXCEPT !.todo = @ \ {c},
                                !.seen = IF is_streaming(c) THEN @ \cup {c} ELSE @]
            /\ UNCHANGED <<recorders, rec, mon, missed, relaunches, alerts, dbfails>>
  /\ UNCHANGED <<ctl, timeouts, call, camname, progress, failsafe, manifest, files, ledger, streamVars,
                 desired, cfg, now>>

\* A file under the recordings root: path is <<d, filename>>, d being the camera
\* id of a camera_{d} folder (0: not inside a camera folder); kind tells *.mp4
\* from the rest; sizes are in GB; a locked file cannot be removed.
File(d, filename, kind, size, mtime, locked) ==
  [path |-> <<d, filename>>, kind |-> kind, size |-> size, mtime |-> mtime,
   locked |-> locked]

\* sum(f.stat().st_size for f in ...): the sizes that occur, each times the
\* number of files of that size
RECURSIVE SumOver(_, _)
SumOver(F, sizes) ==
  IF sizes = {} THEN 0
  ELSE LET z == Lowest(sizes)
       IN z * Cardinality({f \in F : f.size = z}) + SumOver(F, sizes \ {z})

SumSizes(F) == SumOver(F, {f.size : f \in F})

\* _check_disk_space, line 136: every file under the root counts
UsedGb(F) == SumSizes(F)

\* _check_disk_space, lines 126-127
FreeGb(F) == cfg.capacity - UsedGb(F)

\* order_by('start_time')
Before(q, r) == q.start_time < r.start_time

\* order_by('start_time')[:n]
Oldest(S, n) ==
  IF Cardinality(S) <= n THEN S
  ELSE {r \in S : Cardinality({q \in S : Before(q, r)}) < n}

\* Recording.objects.filter(start_time__lt=cutoff_date)
Expired(L) == {r \in L : r.start_time < now - cfg.retention_days}

\* _delete_recording_safely on each record of S: the file is removed if it is
\* there, then the record; when os.remove raises, the record stays
LockedPaths(F) == {f.path : f \in {g \in F : g.locked}}
RecordsAfterDelete(L, F, S) ==
  LET K == LockedPaths(F) IN L \ {r \in S : r.filepath \notin K}
FilesAfterDelete(F, S) ==
  LET P == {r.filepath : r \in S} IN {f \in F : f.locked \/ f.path \notin P}

\* _cleanup_old_recordings, lines 282-286: the records the retention loop hands to
\* _delete_recording_safely
RetentionPass(L) == Oldest(Expired(L), RetentionBatch)

\* _cleanup_old_recordings, lines 295-301: the records the purge loop hands to
\* _delete_recording_safely; the query runs after the retention loop, on what
\* that loop left in the table
PurgePass(L, F, force_purge) ==
  Oldest(RecordsAfterDelete(L, F, RetentionPass(L)),
         IF force_purge THEN ForcePurgeBatch ELSE SoftPurgeBatch)

\* _cleanup_old_recordings: the retention pass, then the purge of the oldest
\* records when force_purge or quota_exceeded; the result is <<records, files>>
Cleanup(L, F, force_purge, quota_exceeded) ==
  LET S1 == RetentionPass(L)
      L1 == RecordsAfterDelete(L, F, S1)
      F1 == FilesAfterDelete(F, S1)
      S2 == PurgePass(L, F, force_purge)
  IN IF force_purge \/ quota_exceeded
     THEN <<RecordsAfterDelete(L1, F1, S2), FilesAfterDelete(F1, S2)>>
     ELSE <<L1, F1>>

\* _check_disk_space with the two tests in the other order: the quota is compared
\* first and the free space only when the quota is not exceeded
FsDiskQuotaFirst ==
  /\ fs.pc = "disk"
  /\ LET res == IF UsedGb(files) > cfg.max_storage_gb
                THEN Cleanup(ledger, files, FALSE, TRUE)
                ELSE IF FreeGb(files) < CriticalFloorGb
                     THEN Cleanup(ledger, files, TRUE, FALSE)
                     ELSE <<ledger, files>>
     IN /\ ledger' = res[1]
        /\ files' = res[2]
  /\ fs' = [fs EXCEPT !.pc = "orphan"]
  /\ UNCHANGED <<recVars, call, camname, progress, failsafe, manifest, dbfails, streamVars, alerts,
                 desired, cfg, now>>

\* _check_disk_space
FsDisk ==
  /\ fs.pc = "disk"
  /\ LET res == IF FreeGb(files) < CriticalFloorGb
                THEN Cleanup(ledger, files, TRUE, FALSE)
                ELSE IF UsedGb(files) > cfg.max_storage_gb
                     THEN Cleanup(ledger, files, FALSE, TRUE)
                     ELSE <<ledger, files>>
     IN /\ ledger' = res[1]
        /\ files' = res[2]
  /\ fs' = [fs EXCEPT !.pc = "orphan"]
  /\ UNCHANGED <<recVars, call, camname, progress, failsafe, manifest, dbfails, streamVars, alerts,
                 desired, cfg, now>>

\* The record _check_orphan_files builds for a file
OrphanRecord(f) ==
  [pk |-> 0, camera |-> f.path[1], filename |-> f.path[2], filepath |-> f.path,
   start_time |-> f.mtime, duration |-> OrphanDuration, file_size |-> f.size]

\* _check_orphan_files, lines 167-206: the *.mp4 files whose path is in no record,
\* one after the other; a file outside a camera folder, or in the folder of a
\* camera that does not exist, is passed over
\* The import without the camera lookup of line 185: every file gets a record
RECURSIVE ImportAnyCamera(_, _)
ImportAnyCamera(L, F) ==
  IF F = {} THEN L
  ELSE LET f == CHOOSE x \in F : \A y \in F : x.mtime <= y.mtime
       IN ImportAnyCamera(LedgerCreate(L, OrphanRecord(f)), F \ {f})

RECURSIVE ImportOrphans(_, _)
ImportOrphans(L, F) ==
  IF F = {} THEN L
  ELSE LET f == CHOOSE x \in F : \A y \in F : x.mtime <= y.mtime
       IN ImportOrphans(IF f.path[1] \in Cams THEN LedgerCreate(L, OrphanRecord(f))
                        ELSE L,
                        F \ {f})

FsOrphan ==
  /\ fs.pc = "orphan"
  /\ LET db_files == {r.filepath : r \in ledger}
     IN ledger' = ImportOrphans(ledger, {f \in files : /\ f.kind = "mp4"
                                                       /\ f.path \notin db_files})
  /\ fs' = [fs EXCEPT !.pc = "stream"]
  /\ UNCHANGED <<recVars, call, camname, progress, failsafe, manifest, files, dbfails, streamVars, alerts,
                 desired, cfg, now>>

\* _check_stream_health: an alert for every should-stream camera whose registered
\* stream is not alive, appended in camera order
RECURSIVE DeadAlerts(_, _)
DeadAlerts(A, C) ==
  IF C = {} THEN A
  ELSE DeadAlerts(add_alert(A, [type |-> "stream_dead", camera |-> Lowest(C)]),
                  C \ {Lowest(C)})

\* _check_stream_health acting on what it finds: the stream of a camera that is
\* not alive is stopped and taken out of the registry
FsStreamRestarts ==
  /\ fs.pc = "stream"
  /\ LET dead == {c \in Cams : desired[c] /\ streams[c] # 0 /\ ~is_alive(streams[c])}
     IN /\ alerts' = DeadAlerts(alerts, dead)
        /\ streams' = [c \in Cams |-> IF c \in dead THEN 0 ELSE streams[c]]
        /\ strm' = [o \in StreamObjs |->
                      IF \E c \in dead : streams[c] = o
                      THEN [strm[o] EXCEPT !.is_running = FALSE, !.capture = "none"]
                      ELSE strm[o]]
  /\ fs' = [fs EXCEPT !.pc = "sleep"]
  /\ UNCHANGED <<recVars, call, ledgerVars, progress, failsafe, scall, desired, cfg, now>>

FsStream ==
  /\ fs.pc = "stream"
  /\ alerts' = DeadAlerts(alerts, {c \in Cams : /\ desired[c]
                                                /\ streams[c] # 0
                                                /\ ~is_alive(streams[c])})
  /\ fs' = [fs EXCEPT !.pc = "sleep"]
  /\ UNCHANGED <<recVars, call, ledgerVars, progress, failsafe, streamVars, desired, cfg, now>>

\* toggle_stream (cameras/views.py): Camera.is_streaming is flipped
ToggleStream(c) ==
  /\ desired' = [desired EXCEPT ![c] = ~@]
  /\ UNCHANGED <<recVars, call, ledgerVars, progress, failsafe, streamVars, fs, alerts, cfg, now>>

\* ------------------------- the failsafe tick over one camera's stream and session
NextHealth ==
  \/ ToggleStream(RecCam)
  \/ SCallStart(1, RecCam)
  \/ SFlag(1)
  \/ SJoinDel(1)
  \/ SCreate(1)
  \/ \E o \in StreamObjs : CapConnect(o)
  \/ \E o \in StreamObjs : CapRead(o)
  \/ \E o \in StreamObjs : CapExit(o)
  \/ \E o \in StreamObjs : FrameAges(o)
  \/ FsWake
  \/ FsHealth
  \/ FsDisk
  \/ FsOrphan
  \/ FsStream

SpecHealth == InitRec /\ [][NextHealth]_vars

\* The stream check of a tick beside the stream of one camera, started and stopped
\* by one caller.  The tick has gone through its first three checks on an empty
\* system, where they change nothing, and is about to run the stream check.
InitWatch ==
  /\ RecStart /\ LedgerStart /\ StreamStart
  /\ fs = [FsIdle EXCEPT !.pc = "stream"]
  /\ alerts = <<>>
  /\ desired = [c \in Cams |-> FALSE]
  /\ cfg = DefaultSettings
  /\ now = 0

NextWatch ==
  \/ ToggleStream(RecCam)
  \/ SCallStart(1, RecCam)
  \/ SCallStop(1, RecCam)
  \/ SFlag(1)
  \/ SJoinDel(1)
  \/ SCreate(1)
  \/ \E o \in StreamObjs : CapConnect(o)
  \/ \E o \in StreamObjs : CapRead(o)
  \/ \E o \in StreamObjs : CapExit(o)
  \/ \E o \in StreamObjs : FrameAges(o)
  \/ FsStream

SpecWatch == InitWatch /\ [][NextWatch]_vars

\* ------------------------------------------- segments, their tailers, the ledger
MaxSegments == 1

\* The lines of camera c's manifest written since the model's first state
NewRows(c) == {i \in DOMAIN manifest[c] : manifest[c][i].name[2] > 0}

\* The last line of camera c's manifest is finished
Flushed(c) == IF manifest[c] = <<>> THEN TRUE ELSE manifest[c][Len(manifest[c])].eol

\* The encode process of recorder o opens its next segment file,
\* {camera_name}_{time}.{video_format} in camera_{id}/ (the -strftime output
\* pattern, line 82)
SegOpen(o) ==
  /\ rec[o].process = "run"
  /\ Flushed(rec[o].cam)
  /\ LET c == rec[o].cam
         ts == Cardinality(NewRows(c)) + 1
     IN /\ Cardinality(NewRows(c)) < MaxSegments
        /\ \A f \in files : f.path # Filepath(c, Filename(camname[c], ts))
        /\ files' = files \cup {File(c, Filename(camname[c], ts), cfg.video_format, 1, ts,
                                       FALSE)}
  /\ UNCHANGED <<recVars, call, camname, progress, failsafe, manifest, ledger, dbfails, streamVars, fsVars>>

\* The encode process closes the segment and appends its line to segments.csv
\* (-segment_list, line 101): filename,start,end
SegClose(o) ==
  /\ rec[o].process = "run"
  /\ Flushed(rec[o].cam)
  /\ LET c == rec[o].cam
         ts == Cardinality(NewRows(c)) + 1
         name == Filename(camname[c], ts)
     IN /\ \E f \in files : f.path = Filepath(c, name)
        /\ manifest' = [manifest EXCEPT ![c] = Append(@, Row(name, 0, cfg.segment_duration))]
        /\ files' = {IF f.path = Filepath(c, name) THEN [f EXCEPT !.mtime = ts + 1] ELSE f
                     : f \in files}
  /\ UNCHANGED <<recVars, call, camname, progress, failsafe, ledger, dbfails, streamVars, fsVars>>

\* Both cameras are recording, each with its monitor loop at the loop head;
\* camera names need not differ (Camera.name is not unique); camera 1's folder
\* holds the manifest of an earlier session, its segment registered; segments
\* are set to last 60 s and are written in one of the given formats
Leftover == Row(Filename("A", 0), 0, 300)

LedgerStates(formats) ==
  /\ recorders = [c \in Cams |-> c]
  /\ rec = [o \in Objs |-> IF o \in Cams
                            THEN [cam |-> o, is_recording |-> TRUE, process |-> "run",
                                  thread |-> o, stray |-> FALSE,
                                  current_segment_start |-> None,
                                  segment_duration |-> 60]
                            ELSE NoRecorder]
  /\ mon = [t \in Threads |-> IF t \in Cams
                               THEN [pc |-> "head", obj |-> t, i |-> 0, processed |-> {}]
                               ELSE NoThread]
  /\ ctl = Idle
  /\ call = [k \in Callers |-> Idle]
  /\ timeouts = 0
  /\ missed = [t \in Threads |-> 0]
  /\ relaunches = 0
  /\ progress = NoProgress
  /\ failsafe = FailsafeIdle
  /\ camname \in {[c \in Cams |-> "A"], [c \in Cams |-> IF c = 1 THEN "A" ELSE "B"]}
  /\ manifest = [c \in Cams |-> IF c = 1 THEN <<Leftover>> ELSE <<>>]
  /\ files = {File(1, Leftover.name, "mp4", 1, 1, FALSE)}
  /\ ledger = {[SegmentRecord(1, Leftover) EXCEPT !.pk = 1, !.file_size = 1]}
  /\ dbfails = 0
  /\ StreamStart
  /\ fs = FsIdle
  /\ alerts = <<>>
  /\ desired = [c \in Cams |-> FALSE]
  /\ \E format \in formats :
       cfg = [DefaultSettings EXCEPT !.segment_duration = 60, !.video_format = format]
  /\ now = 0

InitLedger == LedgerStates({DefaultSettings.video_format})

\* What csv.reader returns for a line the writer has not finished: the text ends
\* inside the file name, inside the start column, right after the second comma
\* (an empty third column) or inside the end column (its last digit missing)
Cuts == {"name", "start", "comma", "end"}
Torn(row, cut) ==
  CASE cut = "name"  -> [name |-> Filename("", row.name[2]), st |-> -1, en |-> -1,
                         cols |-> 1, eol |-> FALSE]
    [] cut = "start" -> [name |-> row.name, st |-> -1, en |-> -1, cols |-> 2, eol |-> FALSE]
    [] cut = "comma" -> [name |-> row.name, st |-> row.st, en |-> -1, cols |-> 3,
                         eol |-> FALSE]
    [] OTHER         -> [name |-> row.name, st |-> row.st, en |-> row.en \div 10,
                         cols |-> 3, eol |-> FALSE]

\* The encode process closes the segment and has written only part of its line
\* to segments.csv when the file is next read
SegCloseTorn(o) ==
  /\ rec[o].process = "run"
  /\ Flushed(rec[o].cam)
  /\ LET c == rec[o].cam
         ts == Cardinality(NewRows(c)) + 1
         name == Filename(camname[c], ts)
     IN /\ \E f \in files : f.path = Filepath(c, name)
        /\ \E cut \in Cuts :
             manifest' = [manifest EXCEPT ![c] =
                            Append(@, Torn(Row(name, 0, cfg.segment_duration), cut))]
        /\ files' = {IF f.path = Filepath(c, name) THEN [f EXCEPT !.mtime = ts + 1] ELSE f
                     : f \in files}
  /\ UNCHANGED <<recVars, call, camname, progress, failsafe, ledger, dbfails, streamVars, fsVars>>

\* The rest of the line reaches the file
SegFlush(c) ==
  /\ ~Flushed(c)
  /\ LET n == Len(manifest[c])
         name == Filename(camname[c], manifest[c][n].name[2])
     IN manifest' = [manifest EXCEPT ![c][n] = Row(name, 0, cfg.segment_duration)]
  /\ UNCHANGED <<recVars, call, camname, progress, failsafe, files, ledger, dbfails, streamVars, fsVars>>

NextTorn ==
  \/ \E o \in Objs : SegOpen(o)
  \/ \E o \in Objs : SegClose(o)
  \/ \E o \in Objs : SegCloseTorn(o)
  \/ \E c \in Cams : SegFlush(c)
  \/ \E t \in Threads : MonHead(t)
  \/ \E t \in Threads : MonRow(t)
  \/ \E t \in Threads : MonSave(t)

SpecTorn == InitLedger /\ [][NextTorn]_vars

\* A line of segments.csv the reader cannot parse or decode (damaged bytes)
Garbled == [name |-> Filename("", 0), st |-> -1, en |-> -1, cols |-> -1, eol |-> TRUE]

\* As InitLedger, but the line the earlier session left in camera 1's manifest
\* may be damaged, its segment then not registered
InitGarbled ==
  /\ recorders = [c \in Cams |-> c]
  /\ rec = [o \in Objs |-> IF o \in Cams
                            THEN [cam |-> o, is_recording |-> TRUE, process |-> "run",
                                  thread |-> o, stray |-> FALSE,
                                  current_segment_start |-> None,
                                  segment_duration |-> 60]
                            ELSE NoRecorder]
  /\ mon = [t \in Threads |-> IF t \in Cams
                               THEN [pc |-> "head", obj |-> t, i |-> 0, processed |-> {}]
                               ELSE NoThread]
  /\ ctl = Idle
  /\ call = [k \in Callers |-> Idle]
  /\ timeouts = 0
  /\ missed = [t \in Threads |-> 0]
  /\ relaunches = 0
  /\ progress = NoProgress
  /\ failsafe = FailsafeIdle
  /\ camname \in {[c \in Cams |-> "A"], [c \in Cams |-> IF c = 1 THEN "A" ELSE "B"]}
  /\ files = {File(1, Leftover.name, "mp4", 1, 1, FALSE)}
  /\ \/ /\ manifest = [c \in Cams |-> IF c = 1 THEN <<Leftover>> ELSE <<>>]
        /\ ledger = {[SegmentRecord(1, Leftover) EXCEPT !.pk = 1, !.file_size = 1]}
     \/ /\ manifest = [c \in Cams |-> IF c = 1 THEN <<Garbled>> ELSE <<>>]
        /\ ledger = {}
  /\ dbfails = 0
  /\ StreamStart
  /\ fs = FsIdle
  /\ alerts = <<>>
  /\ desired = [c \in Cams |-> FALSE]
  /\ cfg = [DefaultSettings EXCEPT !.segment_duration = 60]
  /\ now = 0

NextGarbled ==
  \/ \E o \in Objs : SegOpen(o)
  \/ \E o \in Objs : SegClose(o)
  \/ \E t \in Threads : MonHead(t)
  \/ \E t \in Threads : MonRow(t)
  \/ \E t \in Threads : MonSave(t)

\* Each monitor loop is a thread of its own that only sleeps for bounded times
SpecGarbled ==
  /\ InitGarbled
  /\ [][NextGarbled]_vars
  /\ \A t \in Threads : WF_vars(MonHead(t)) /\ WF_vars(MonRow(t)) /\ WF_vars(MonSave(t))

NextLedger ==
  \/ \E o \in Objs : SegOpen(o)
  \/ \E o \in Objs : SegClose(o)
  \/ \E t \in Threads : MonHead(t)
  \/ \E t \in Threads : MonRow(t)
  \/ \E t \in Threads : MonSave(t)
  \/ FsWake
  \/ FsHealth
  \/ FsDisk
  \/ FsOrphan
  \/ FsStream

SpecLedger == InitLedger /\ [][NextLedger]_vars

\* The same with the segments written as .mp4 or as .mkv
MediaKinds == {"mp4", "mkv", "mov", "avi", "ts"}

InitOrphan == LedgerStates({"mp4", "mkv"})

SpecOrphan == InitOrphan /\ [][NextLedger]_vars

\* ------------------------------------------- the failsafe tick over a filled root
\* The i-th segment of camera 1 as the monitor loop registered it, and its file
StoredRecord(i) ==
  [pk |-> 1, camera |-> 1, filename |-> Filename("A", i),
   filepath |-> Filepath(1, Filename("A", i)), start_time |-> i, duration |-> 300,
   file_size |-> 1]
StoredFile(i, locked) == File(1, Filename("A", i), "mp4", 1, i, locked)

\* Files the orphan check never registers: a segment in another container format
\* (CameraSettings.video_format), and a segment in the folder of a deleted camera
ForeignFiles == {File(1, Filename("A", 0), "other", 2, 0, FALSE),
                 File(3, Filename("C", 0), "mp4", 2, 0, FALSE)}

\* How many segments camera 1 has stored: a few, or more than one retention batch
RecordCounts == {2, RetentionBatch + 10}

\* Nothing is recording or streaming; the root holds n registered segments of
\* 1 GB (segment i started on day i; the oldest may be undeletable) and possibly
\* foreign files; the quota is 1 GB or the default; the volume is nearly full or
\* not; today is day 7 (nothing has expired) or day 10
DiskStates(counts) ==
  /\ RecStart
  /\ StreamStart
  /\ camname = [c \in Cams |-> IF c = 1 THEN "A" ELSE "B"]
  /\ manifest = [c \in Cams |-> <<>>]
  /\ dbfails = 0
  /\ fs = FsIdle
  /\ alerts = <<>>
  /\ desired = [c \in Cams |-> FALSE]
  /\ now \in {7, 10}
  /\ \E n \in counts, locked \in BOOLEAN, extra \in SUBSET ForeignFiles :
       /\ ledger = {StoredRecord(i) : i \in 1..n}
       /\ files = {StoredFile(i, locked /\ i = 1) : i \in 1..n} \cup extra
       /\ \E quota \in {1, DefaultSettings.max_storage_gb}, room \in {1, 100} :
            cfg = [DefaultSettings EXCEPT !.max_storage_gb = quota,
                                          !.capacity = UsedGb(files) + room]

InitDisk == DiskStates(RecordCounts)

NextDisk ==
  \/ FsWake
  \/ FsHealth
  \/ FsDisk
  \/ FsOrphan
  \/ FsStream

\* The failsafe thread keeps running: each step of its loop is eventually taken
SpecDisk ==
  /\ InitDisk
  /\ [][NextDisk]_vars
  /\ WF_vars(FsWake) /\ WF_vars(FsHealth) /\ WF_vars(FsDisk)
  /\ WF_vars(FsOrphan) /\ WF_vars(FsStream)

NoLocked == \A f \in files : ~f.locked

\* The same with more stored segments than one aggressive purge removes
InitPurge == DiskStates({ForcePurgeBatch + 10})

SpecPurge == InitPurge /\ [][NextDisk]_vars

\* A root of SoftPurgeBatch + 2 segments of 1 GB with room to spare, the quota
\* 1 GB or the default, nothing recording or streaming; the files of the k oldest
\* segments cannot be removed (k = 0, 1 or a whole soft batch); day 7 or day 10
InitBlocked ==
  /\ RecStart
  /\ StreamStart
  /\ camname = [c \in Cams |-> IF c = 1 THEN "A" ELSE "B"]
  /\ manifest = [c \in Cams |-> <<>>]
  /\ dbfails = 0
  /\ fs = FsIdle
  /\ alerts = <<>>
  /\ desired = [c \in Cams |-> FALSE]
  /\ now \in {7, 10}
  /\ \E k \in {0, 1, SoftPurgeBatch}, extra \in SUBSET ForeignFiles :
       /\ ledger = {StoredRecord(i) : i \in 1..(SoftPurgeBatch + 2)}
       /\ files = {StoredFile(i, i <= k) : i \in 1..(SoftPurgeBatch + 2)} \cup extra
       /\ \E quota \in {1, DefaultSettings.max_storage_gb} :
            cfg = [DefaultSettings EXCEPT !.max_storage_gb = quota,
                                          !.capacity = UsedGb(files) + 100]

\* The failsafe thread keeps running, as in SpecDisk
SpecBlocked ==
  /\ InitBlocked
  /\ [][NextDisk]_vars
  /\ WF_vars(FsWake) /\ WF_vars(FsHealth) /\ WF_vars(FsDisk)
  /\ WF_vars(FsOrphan) /\ WF_vars(FsStream)

\* The records whose deletion does not fail
DeletableRecords == {r \in ledger : r.filepath \notin LockedPaths(files)}

\* ------------------------------------------- the orphan check over a mixed root
\* Files found under the recordings root: segments of cameras 1 and 2, one of
\* them an .mkv, a file outside every camera folder (folder 0), one in the folder
\* of a camera that no longer exists (3), and one of camera 2 named like a
\* segment of camera 1
ScanPool ==
  {File(0, Filename("X", 1), "mp4", 1, 1, FALSE),
   File(3, Filename("C", 2), "mp4", 1, 2, FALSE),
   File(1, Filename("A", 3), "mp4", 1, 3, FALSE),
   File(1, Filename("A", 4), "mkv", 1, 4, FALSE),
   File(2, Filename("B", 5), "mp4", 1, 5, FALSE),
   File(2, Filename("A", 3), "mp4", 1, 6, FALSE)}

\* The record the monitor loop made for a segment file of 60 s
TailedRecord(f) ==
  [pk |-> 1, camera |-> f.path[1], filename |-> f.path[2], filepath |-> f.path,
   start_time |-> ParseStart(f.path[2]), duration |-> 60, file_size |-> f.size]

\* Any of these files are there, and any of the camera segments among them whose
\* filenames differ are registered
InitScan ==
  /\ RecStart
  /\ StreamStart
  /\ camname = [c \in Cams |-> IF c = 1 THEN "A" ELSE "B"]
  /\ manifest = [c \in Cams |-> <<>>]
  /\ dbfails = 0
  /\ fs = FsIdle
  /\ alerts = <<>>
  /\ desired = [c \in Cams |-> FALSE]
  /\ cfg = DefaultSettings
  /\ now = 0
  /\ \E F \in SUBSET ScanPool :
       \E G \in SUBSET {f \in F : f.path[1] \in Cams} :
         /\ \A f, g \in G : f.path[2] = g.path[2] => f = g
         /\ files = F
         /\ ledger = {TailedRecord(f) : f \in G}

SpecScan == InitScan /\ [][NextDisk]_vars

\* ------------------------------------------------- a check of the tick fails
\* The successor of each position of the failsafe loop
NextCheck(pc) ==
  CASE pc = "health" -> "disk"
    [] pc = "disk" -> "orphan"
    [] pc = "orphan" -> "stream"
    [] pc = "stream" -> "sleep"
    [] OTHER -> "health"

\* A failure inside a check that only the loop's handler (lines 66-67) catches:
\* the rest of the tick is skipped
CheckAbortsTick ==
  /\ fs.pc \in {"health", "disk", "orphan", "stream"}
  /\ fs' = [fs EXCEPT !.pc = "sleep", !.todo = {}, !.failed = TRUE]
  /\ UNCHANGED <<recVars, call, ledgerVars, progress, failsafe, streamVars, alerts, desired, cfg, now>>

\* The first query of a check raises (Camera.objects.filter, lines 78 and 220;
\* CameraSettings.objects.first, line 120; Recording.objects.values_list, line
\* 164): the check's own handler (lines 107, 148, 211, 241) logs it and the
\* check returns having done nothing.  failed notes that the tick met a failure.
FsCheckFails ==
  /\ fs.pc \in {"health", "disk", "orphan", "stream"}
  /\ fs' = [fs EXCEPT !.pc = NextCheck(fs.pc), !.todo = {}, !.failed = TRUE]
  /\ UNCHANGED <<recVars, call, ledgerVars, progress, failsafe, streamVars, alerts, desired, cfg, now>>

NextTick ==
  \/ FsWake
  \/ FsHealth
  \/ FsDisk
  \/ FsOrphan
  \/ FsStream
  \/ FsCheckFails

\* The loop never blocks: the sleep ends and every check returns
SpecTick ==
  /\ InitScan
  /\ [][NextTick]_vars
  /\ WF_vars(FsWake)
  /\ WF_vars(FsHealth)
  /\ WF_vars(FsDisk)
  /\ WF_vars(FsOrphan)
  /\ WF_vars(FsStream)

\* ------------------------------------------------------ the alert buffer
MaxAdds == 120

\* A check of the failsafe adds an alert, stamped with the time (here the number
\* of alerts added before it); the stream of camera 1 or 2 is found dead in turn
RaiseAlert ==
  /\ now < MaxAdds
  /\ alerts' = add_alert(alerts, [type |-> "stream_dead", camera |-> (now % 2) + 1,
                                  timestamp |-> now])
  /\ now' = now + 1
  /\ UNCHANGED <<recVars, call, ledgerVars, progress, failsafe, streamVars, fs, desired, cfg>>

SpecAlerts == InitRec /\ [][RaiseAlert]_vars

\* ------------------------------------------------ recording progress
MaxClock == 310
SecondsPerDay == 86400

\* timedelta.seconds: the seconds of the difference within its day
Seconds(d) == d % SecondsPerDay

\* The pairs <<elapsed, segment_duration>>, among the durations 60 and 300 and
\* elapsed <= segment_duration, for which the double (elapsed / duration) * 100
\* falls just below the integer 100 * elapsed / duration
RoundedBelow == {<<87, 300>>, <<171, 300>>, <<174, 300>>}

\* line 170: min(int((elapsed / self.segment_duration) * 100), 100)
Percent(elapsed, duration) ==
  Min((100 * elapsed) \div duration
        - (IF <<elapsed, duration>> \in RoundedBelow THEN 1 ELSE 0),
      100)

\* CameraRecorder.get_progress, lines 159-177, for a recorder whose
\* segment_duration is the configured one
RecorderProgress(r, c) ==
  IF ~r.is_recording \/ r.current_segment_start = None
  THEN [cam |-> c, progress |-> 0, elapsed |-> 0, total |-> cfg.segment_duration]
  ELSE LET elapsed == Seconds(now - r.current_segment_start)
       IN [cam |-> c, progress |-> Percent(elapsed, cfg.segment_duration),
           elapsed |-> elapsed, total |-> cfg.segment_duration]

\* RecordingManager.get_progress, lines 362-366
get_progress(c) ==
  IF recorders[c] # 0
  THEN RecorderProgress(rec[recorders[c]], c)
  ELSE [cam |-> c, progress |-> 0, elapsed |-> 0, total |-> 0]

\* A caller asks for camera c's progress
GetProgress(c) ==
  /\ progress' = get_progress(c)
  /\ UNCHANGED <<recVars, call, ledgerVars, streamVars, fsVars, failsafe>>

\* A second passes
ClockTick ==
  /\ now < MaxClock
  /\ now' = now + 1
  /\ UNCHANGED <<recVars, call, ledgerVars, streamVars, fs, alerts, desired, cfg, progress, failsafe>>

\* Camera 1 has no session, or a session whose launch failed (registered, not
\* recording, no monitor loop), or a recording session whose monitor loop has
\* or has not yet taken up a finished segment; camera 2 has no session
InitProgress ==
  /\ LedgerStart
  /\ StreamStart
  /\ ctl = Idle
  /\ call = [k \in Callers |-> Idle]
  /\ timeouts = 0
  /\ missed = [t \in Threads |-> 0]
  /\ relaunches = 0
  /\ progress = NoProgress
  /\ failsafe = FailsafeIdle
  /\ fs = FsIdle
  /\ alerts = <<>>
  /\ desired = [c \in Cams |-> FALSE]
  /\ now = 0
  /\ \E d \in {60, DefaultSettings.segment_duration} :
       cfg = [DefaultSettings EXCEPT !.segment_duration = d]
  /\ \/ /\ recorders = [c \in Cams |-> 0]
        /\ rec = [o \in Objs |-> NoRecorder]
        /\ mon = [t \in Threads |-> NoThread]
     \/ /\ recorders = [c \in Cams |-> IF c = 1 THEN 1 ELSE 0]
        /\ rec = [o \in Objs |-> IF o = 1 THEN [NoRecorder EXCEPT !.cam = 1]
                                  ELSE NoRecorder]
        /\ mon = [t \in Threads |-> NoThread]
     \/ /\ recorders = [c \in Cams |-> IF c = 1 THEN 1 ELSE 0]
        /\ \E start \in {None, 0} :
             rec = [o \in Objs |->
                      IF o = 1
                      THEN [NoRecorder EXCEPT !.cam = 1, !.is_recording = TRUE,
                                              !.process = "run", !.thread = 1,
                                              !.current_segment_start = start]
                      ELSE NoRecorder]
        /\ mon = [t \in Threads |->
                    IF t = 1 THEN [pc |-> "head", obj |-> 1, i |-> 0, processed |-> {}]
                    ELSE NoThread]

NextProgress ==
  \/ \E c \in Cams : GetProgress(c)
  \/ ClockTick

SpecProgress == InitProgress /\ [][NextProgress]_vars

\* ---------------------------------------------------------------------------
\* FailsafeMonitor.start / stop and the _monitor_loop threads they create.
\* A loop thread is at its loop head ("head", about to read is_running), inside
\* the four checks of a tick ("tick"), in time.sleep(check_interval) ("sleep"),
\* or has returned ("done").  "none" is a thread that was never created.

LoopLive(l) == failsafe.loop[l] \in {"head", "tick", "sleep"}

FreeLoops == {l \in Loops : ~LoopLive(l)}

\* start(), lines 41-49: a no-op while is_running, else the flag is set and a
\* new thread is created and started; nothing checks the previous thread.
MonitorStart ==
  /\ ~failsafe.stopping
  /\ \/ failsafe.is_running /\ UNCHANGED failsafe
     \/ /\ ~failsafe.is_running
        /\ FreeLoops # {}
        /\ failsafe' = [failsafe EXCEPT !.is_running = TRUE,
                                        !.monitor_thread = Lowest(FreeLoops),
                                        !.loop[Lowest(FreeLoops)] = "head"]
  /\ UNCHANGED <<recVars, call, ledgerVars, streamVars, fsVars, progress>>

\* stop(), line 53: the flag is cleared; with a thread on record the caller goes
\* on to join it, without one stop() has returned.
MonitorStop ==
  /\ ~failsafe.stopping
  /\ failsafe' = [failsafe EXCEPT !.is_running = FALSE,
                                  !.stopping = failsafe.monitor_thread # 0]
  /\ UNCHANGED <<recVars, call, ledgerVars, streamVars, fsVars, progress>>

\* stop(), line 55: join(timeout=5) returns when the thread has returned, or
\* after five seconds with the thread still alive (it sleeps check_interval = 30
\* seconds between ticks); the result of the join is not looked at.
MonitorJoin ==
  /\ failsafe.stopping
  /\ failsafe' = [failsafe EXCEPT !.stopping = FALSE]
  /\ UNCHANGED <<recVars, call, ledgerVars, streamVars, fsVars, progress>>

\* _monitor_loop, line 60: while self.is_running
LoopHead(l) ==
  /\ failsafe.loop[l] = "head"
  /\ failsafe' = [failsafe EXCEPT !.loop[l] = IF failsafe.is_running THEN "tick" ELSE "done"]
  /\ UNCHANGED <<recVars, call, ledgerVars, streamVars, fsVars, progress>>

\* _monitor_loop, lines 61-67: the four checks have run (their effects on the
\* ledger and the disk are the Fs actions), the thread goes to sleep
LoopChecks(l) ==
  /\ failsafe.loop[l] = "tick"
  /\ failsafe' = [failsafe EXCEPT !.loop[l] = "sleep"]
  /\ UNCHANGED <<recVars, call, ledgerVars, streamVars, fsVars, progress>>

\* _monitor_loop, line 69: time.sleep(self.check_interval) returns
LoopSleep(l) ==
  /\ failsafe.loop[l] = "sleep"
  /\ failsafe' = [failsafe EXCEPT !.loop[l] = "head"]
  /\ UNCHANGED <<recVars, call, ledgerVars, streamVars, fsVars, progress>>

NextFailsafe ==
  \/ MonitorStart
  \/ MonitorStop
  \/ MonitorJoin
  \/ \E l \in Loops : LoopHead(l)
  \/ \E l \in Loops : LoopChecks(l)
  \/ \E l \in Loops : LoopSleep(l)

SpecFailsafe == InitRec /\ [][NextFailsafe]_vars

\* C1: crash-restart.  No monitor loop passes its loop head twice with the encode
\* process exited (or missing) and is_recording true without attempting a relaunch
\* in between, whatever the number of relaunches already made: the relaunch comes
\* within one iteration and there is no ceiling.
CrashRestart ==
  /\ \A t \in Threads : missed[t] <= 1
  /\ \A o \in Objs : rec[o].is_recording /\ ctl.pc = "idle" =>
                        \E t \in Threads : Alive(t) /\ mon[t].obj = o

\* MaxRelaunch relaunch attempts were made in one session and the process runs again
CrashRestartWitness ==
  /\ relaunches = MaxRelaunch
  /\ \E t \in Threads :
       /\ mon[t].pc = "tail"
       /\ rec[mon[t].obj].is_recording
       /\ rec[mon[t].obj].process = "run"

OneSessionPerCamera == \A c \in Cams : Cardinality(Sessions(c)) <= 1

\* C4: start and stop requests on the stream registry for one camera id are
\* serialized.  At most one CameraStream with a running capture loop exists per
\* camera id, every running capture loop is the one the registry refers to, and no
\* call fails on a handle removed by another call.
StreamCallsSerialized ==
  /\ \A c \in Cams : Cardinality(Capturing(c)) <= 1
  /\ \A c \in Cams : \A o \in Capturing(c) : streams[c] = o
  /\ \A k \in Callers : scall[k].pc # "failed"

\* C5: recording-health reconciliation.  When a tick's recording-health check has
\* completed, every should-stream camera the check found streaming has a session
\* that is recording (ticks in which a launch of the encode process failed apart).
HealthReconciles ==
  fs.pc = "disk" /\ ~fs.failed => \A c \in fs.seen : IsRecording(c)

\* C6: filename uniqueness.  The ledger never holds two records with one filename,
\* however the manifest tailers of the cameras and the orphan check interleave.
FilenameUnique ==
  \A q \in ledger : \A r \in ledger : q.filename = r.filename => q = r

\* Two tailers have each passed a line with one and the same filename
FilenameUniqueWitness ==
  \E t \in Threads : \E u \in Threads :
    /\ t # u
    /\ mon[t].processed \cap mon[u].processed # {}
    /\ \A n \in mon[t].processed \cap mon[u].processed :
         Cardinality({r \in ledger : r.filename = n}) = 1

\* C7: manifest tailing is idempotent.  No step of a monitor loop removes or alters
\* a record, and a record it adds has a filename no record had: going again over
\* lines that are registered leaves the ledger as it is.
TailIdempotent ==
  [][mon' # mon =>
       /\ \A r \in ledger : r \in ledger'
       /\ \A q \in ledger' \ ledger : ~ExistsByFilename(ledger, q.filename)]_vars

\* A monitor loop that began with an empty processed set has gone over the line of
\* the earlier session, and the record of that line is the one there was
TailIdempotentWitness ==
  /\ \E t \in Threads : Alive(t) /\ Leftover.name \in mon[t].processed
  /\ {r \in ledger : r.filename = Leftover.name} =
       {[SegmentRecord(1, Leftover) EXCEPT !.pk = 1, !.file_size = 1]}

\* C8: every complete manifest line is registered with its own duration.  Once a
\* monitor loop has gone over a line (filename, start, end), the ledger holds a
\* record for the filename with duration end - start, whatever failsafe ticks
\* went in between (in runs without ledger errors, the cameras named differently).
SegmentRegistered ==
  dbfails = 0 /\ camname[1] # camname[2] =>
    \A t \in Threads : Alive(t) =>
      \A i \in DOMAIN manifest[rec[mon[t].obj].cam] :
        LET row == manifest[rec[mon[t].obj].cam][i]
        IN row.name \in mon[t].processed =>
             \E r \in ledger : r.filename = row.name /\ r.duration = row.en - row.st

\* C9: retention.  Records older than retention_days are eventually deleted by the
\* repeated failsafe ticks in every disk state, when no deletion fails.
RetentionEventually ==
  (NoLocked /\ Expired(ledger) # {}) ~> (Expired(ledger) = {})

\* C10: quota convergence.  When the bytes under the recordings root exceed the
\* quota and nothing is ingested, repeated failsafe ticks bring the usage back
\* under the quota, whatever the root holds, when no deletion fails.
QuotaConverges ==
  (NoLocked /\ UsedGb(files) > cfg.max_storage_gb) ~>
    (UsedGb(files) <= cfg.max_storage_gb)

\* C11: critical disk pressure.  A disk check that finds less than 2 GB free
\* deletes at most 100 records in that tick.
PurgeAtMostHundred ==
  [][fs.pc = "disk" /\ FreeGb(files) < CriticalFloorGb =>
       Cardinality(ledger \ ledger') <= ForcePurgeBatch]_vars

\* C12: reconnect ceiling.  A stream worker counts consecutive failed connection
\* attempts: the count never passes 5, a worker at 5 is Failed (is_running false,
\* is_alive false, loop ended) and never connects or counts again, a failed
\* attempt adds exactly one, and a successful open sets the count to 0.
ReconnectCeiling ==
  [][\A o \in StreamObjs :
       /\ strm'[o].reconnect_attempts <= max_reconnect_attempts
       /\ strm'[o].reconnect_attempts = max_reconnect_attempts =>
            ~strm'[o].is_running /\ ~is_alive(o)' /\ strm'[o].loop = "done"
       /\ strm[o].reconnect_attempts = max_reconnect_attempts =>
            \/ strm'[o] = NoStream
            \/ /\ strm'[o].reconnect_attempts = max_reconnect_attempts
               /\ strm'[o].capture = "none"
       /\ strm[o].loop = "run" /\ strm'[o].loop = strm[o].loop =>
            \/ strm'[o].reconnect_attempts = strm[o].reconnect_attempts
            \/ /\ strm[o].capture = "none"
               /\ strm'[o].capture = "none"
               /\ strm'[o].reconnect_attempts = strm[o].reconnect_attempts + 1
            \/ /\ strm[o].capture = "none"
               /\ strm'[o].capture = "open"
               /\ strm'[o].reconnect_attempts = 0
       /\ strm'[o].capture = "open" => strm'[o].reconnect_attempts = 0]_vars

\* A registered worker that once decoded a frame, lost its connection and then
\* failed 5 times in a row
ReconnectCeilingWitness ==
  \E c \in Cams :
    /\ streams[c] # 0
    /\ strm[streams[c]].frame = "stale"
    /\ strm[streams[c]].reconnect_attempts = max_reconnect_attempts
    /\ ~strm[streams[c]].is_running

\* C13: recording start is idempotent.  With a session registered for the
\* camera, start_recording changes nothing: the registry entry stays, no start
\* goes on to a launch, and the call leaves every variable as it was.
StartIdempotent ==
  [][ctl.pc = "idle" /\ recorders[RecCam] # 0 =>
       /\ ctl'.op # "start"
       /\ recorders'[RecCam] = recorders[RecCam]
       /\ CtlStartRecording(RecCam) => UNCHANGED vars]_vars

\* A session with a running encode process and a live monitor loop, on which
\* start_recording can be called
StartIdempotentWitness ==
  /\ ctl.pc = "idle"
  /\ recorders[RecCam] # 0
  /\ rec[recorders[RecCam]].process = "run"
  /\ ThreadAlive(recorders[RecCam])
  /\ ENABLED CtlStartRecording(RecCam)

\* C14: stream start is idempotent.  A step of a start_stream request whose
\* camera has a running worker leaves that worker running and registered, with
\* its connection and last frame as they were.
StreamStartIdempotent ==
  [][\A k \in Callers, o \in StreamObjs :
       /\ scall'[k] # scall[k]
       /\ scall'[k].op = "start" \/ scall[k].op = "start"
       /\ scall'[k].obj = o \/ scall[k].obj = o
       /\ strm[o].is_running
       /\ strm[o].loop = "run"
       => /\ strm'[o] = strm[o]
          /\ streams'[strm[o].cam] = streams[strm[o].cam]]_vars

\* C15: after stop_recording has returned, the session it removed from the
\* registry has its desired-running flag false and no encode process of it is
\* running, whatever the monitor loop was doing during the stop.
NoProcessAfterStop ==
  ctl.pc = "idle" =>
    \A o \in Objs :
      (rec[o].cam # 0 /\ \A c \in Cams : recorders[c] # o) =>
        /\ ~rec[o].is_recording
        /\ rec[o].process # "run"
        /\ ~rec[o].stray

\* C16: stop_stream always succeeds.  No stop_stream call, made directly or by
\* start_stream for an existing handle, ends with an error, and when a
\* stop_stream call for a camera returns while no other request is in progress,
\* the camera has no handle, is_streaming is false and there is no frame to get.
StopStreamSucceeds ==
  /\ [](\A k \in Callers : scall[k].pc # "failed")
  /\ [][\A k \in Callers, c \in Cams :
          /\ scall[k].op = "stop"
          /\ scall[k].cam = c
          /\ scall'[k].pc = "idle"
          /\ \A j \in Callers \ {k} : scall[j].pc = "idle"
          => streams'[c] = 0 /\ ~is_streaming(c)']_vars

\* C17: is_streaming(camera) is true exactly when the camera has a handle whose
\* capture loop is running and has not been told to stop, and whose last frame
\* is younger than the liveness window; it is false for a worker that exhausted
\* its reconnects, for a stopped worker and for one that has decoded no frame.
AliveIffRunningAndFresh ==
  \A c \in Cams :
    /\ is_streaming(c) <=>
         /\ streams[c] # 0
         /\ strm[streams[c]].loop = "run"
         /\ strm[streams[c]].is_running
         /\ strm[streams[c]].frame = "fresh"
    /\ streams[c] # 0 =>
         /\ strm[streams[c]].reconnect_attempts = max_reconnect_attempts
              => ~is_alive(streams[c])
         /\ strm[streams[c]].loop = "done" => ~is_alive(streams[c])
         /\ strm[streams[c]].frame = "none" => ~is_alive(streams[c])

\* One camera streaming live while the other camera's worker, which once
\* decoded frames, has exhausted its reconnects
AliveIffWitness ==
  \E c, e \in Cams :
    /\ is_streaming(c)
    /\ streams[e] # 0
    /\ strm[streams[e]].reconnect_attempts = max_reconnect_attempts
    /\ strm[streams[e]].frame # "none"
    /\ ~is_streaming(e)

\* C18: get_progress answers elapsed 0, total 0 and percent 0 for a camera that
\* is not recording, with or without a session; for a recording camera the
\* percent is within 0..100 and is min(100, floor(100 * elapsed / total)).
ProgressZeroedOrExact ==
  progress.cam # 0 =>
    IF IsRecording(progress.cam)
    THEN /\ progress.progress \in 0..100
         /\ progress.progress = Min(100, (100 * progress.elapsed) \div progress.total)
    ELSE /\ progress.elapsed = 0
         /\ progress.total = 0
         /\ progress.progress = 0

\* C19: restartAll.  When restart_all_recordings returns from restarting a
\* session, the registry holds the same camera ids as before the call's last
\* step, the session is recording again, exactly one encode process runs for it
\* and exactly one monitor loop watches it.
RestartAllRestarts ==
  [][ctl.op = "restart" /\ ctl'.pc = "idle" =>
       LET o == ctl.obj IN
         /\ recorders' = recorders
         /\ \E c \in Cams : recorders'[c] = o
         /\ rec'[o].is_recording
         /\ rec'[o].process = "run"
         /\ ~rec'[o].stray
         /\ Cardinality({t \in Threads : mon'[t].pc # "done" /\ mon'[t].obj = o}) = 1]_vars

\* C20: orphan recovery.  After an orphan-reconciliation pass every media file
\* in the folder of an existing camera that had no record with its filepath has
\* a record with that filepath, the file's size and the file's modification
\* time as start time.
OrphansImported ==
  [][fs.pc = "orphan" /\ fs'.pc = "stream" =>
       \A f \in files :
         (/\ f.kind \in MediaKinds
          /\ f.path[1] \in Cams
          /\ f.path \notin {r.filepath : r \in ledger})
         => \E r \in ledger' : /\ r.filepath = f.path
                               /\ r.file_size = f.size
                               /\ r.start_time = f.mtime]_vars

\* C21: the orphan-reconciliation pass deletes nothing.  It leaves every file
\* and every existing record as they were, every record it adds is for a file in
\* the folder of an existing camera, and a file it cannot attribute does not
\* stop it: every .mp4 of an existing camera whose path and filename are in no
\* record and whose filename no other file shares has a record afterwards.
OrphanCheckOnlyAdds ==
  [][fs.pc = "orphan" /\ fs'.pc = "stream" =>
       /\ files' = files
       /\ ledger \subseteq ledger'
       /\ \A r \in ledger' \ ledger :
            /\ r.camera \in Cams
            /\ \E f \in files : f.path = r.filepath /\ f.path[1] = r.camera
       /\ \A f \in files :
            (/\ f.kind = "mp4"
             /\ f.path[1] \in Cams
             /\ \A r \in ledger : r.filepath # f.path /\ r.filename # f.path[2]
             /\ \A g \in files : g.path[2] = f.path[2] => g = f)
            => \E r \in ledger' : r.filepath = f.path]_vars

\* After a pass, a file in the folder of a missing camera has no record while a
\* file of an existing camera that the pass met later was imported
OrphanCheckOnlyAddsWitness ==
  /\ fs.pc = "stream"
  /\ \E f, g \in files :
       /\ f.kind = "mp4"
       /\ f.path[1] \notin Cams
       /\ \A r \in ledger : r.filepath # f.path
       /\ f.mtime < g.mtime
       /\ \E r \in ledger : r.filepath = g.path /\ r.duration = OrphanDuration
  /\ \E r \in ledger : r.duration # OrphanDuration

\* C22: a failed force-start is reported.  A step of the recording-health check
\* in which the start of a camera's recording fails appends a recording_failed
\* alert for that camera, and no recording_recovered alert.
FailedStartAlerts ==
  [][fs.pc = "health" /\ ~fs.failed /\ fs'.failed =>
       alerts' = add_alert(alerts, [type |-> "recording_failed",
                                    camera |-> Lowest(fs.todo)])]_vars

\* C23: the alert buffer.  After n alerts were added the buffer holds
\* min(n, 100) alerts, and they are the last min(n, 100) added, oldest first.
AlertBufferLastHundred ==
  /\ Len(alerts) = Min(now, AlertCap)
  /\ \A i \in 1..Len(alerts) :
       /\ alerts[i].timestamp = now - Len(alerts) + i - 1
       /\ alerts[i].camera = (alerts[i].timestamp % 2) + 1

\* More than 100 alerts were added: the oldest ones are gone
AlertBufferWitness ==
  /\ now > AlertCap + 1
  /\ Len(alerts) = AlertCap
  /\ alerts[1].timestamp = now - AlertCap

\* C24: in every tick the four checks are attempted in the order
\* recording-health, disk-space, orphan reconciliation, stream-health, whether
\* or not one of them fails, and the next tick always comes.
TickRunsAllChecks ==
  /\ [][fs'.pc # fs.pc => fs'.pc = NextCheck(fs.pc)]_vars
  /\ []<>(fs.pc = "health")
  /\ \A p \in {"health", "disk", "orphan", "stream"} :
       (fs.pc = p) ~> (fs.pc = NextCheck(p))

\* A tick in which a check failed has reached its end, and the orphan check
\* has imported a file
TickRunsAllChecksWitness ==
  /\ fs.pc = "sleep"
  /\ fs.failed
  /\ \E r \in ledger : r.duration = OrphanDuration

\* C25: failsafe ticks are single-flight.  Whatever sequence of start() and stop()
\* calls was made, a stop() whose join timed out followed by a start() included,
\* at most one _monitor_loop thread is alive and no two threads are inside a tick
\* at the same time.
SingleFlight ==
  /\ Cardinality({l \in Loops : LoopLive(l)}) <= 1
  /\ Cardinality({l \in Loops : failsafe.loop[l] = "tick"}) <= 1

\* C26: priority of the disk check.  A check that finds less than 2 GB free runs
\* the purge of batch 100 (every deletable record among the 100 oldest goes) and
\* nothing of the quota branch on top of it; a check that finds the floor respected
\* and the quota exceeded runs the purge of batch 20 and no more; a check that
\* finds neither deletes no record and no file.
DiskCheckPriority ==
  [][fs.pc = "disk" /\ fs'.pc = "orphan" =>
       LET D == ledger \ ledger'
           Deletable(r) == r.filepath \notin LockedPaths(files)
           low == FreeGb(files) < CriticalFloorGb
           over == UsedGb(files) > cfg.max_storage_gb
       IN /\ low =>
               /\ \A r \in Oldest(ledger, ForcePurgeBatch) : Deletable(r) => r \in D
               /\ Cardinality(D \ Expired(ledger)) <= ForcePurgeBatch
          /\ ~low /\ over =>
               /\ \A r \in Oldest(ledger, SoftPurgeBatch) : Deletable(r) => r \in D
               /\ Cardinality(D \ Expired(ledger)) <= SoftPurgeBatch
          /\ ~low /\ ~over => ledger' = ledger /\ files' = files]_vars

\* The first check of a nearly full volume holding 110 segments, with the quota
\* exceeded as well, has left ten of them
DiskCheckPriorityWitness ==
  /\ fs.pc = "orphan"
  /\ Cardinality(ledger) = 10
  /\ cfg.capacity - SumSizes(files) > ForcePurgeBatch
  /\ cfg.max_storage_gb = 1

\* C27: deletion ordering.  A disk check removes a record only with its file gone
\* from the disk, leaves in place the record whose file could not be removed, and
\* hands no record to _delete_recording_safely twice in the same tick.
DeleteOnceFileFirst ==
  [][fs.pc = "disk" /\ fs'.pc = "orphan" =>
       LET low == FreeGb(files) < CriticalFloorGb
           over == UsedGb(files) > cfg.max_storage_gb
       IN /\ \A r \in ledger \ ledger' : \A f \in files' : f.path # r.filepath
          /\ \A r \in ledger : r.filepath \in LockedPaths(files) => r \in ledger'
          /\ low \/ over =>
               RetentionPass(ledger) \cap PurgePass(ledger, files, low) = {}]_vars

\* C28: a delete failure never blocks other cleanup work.  While the quota is
\* exceeded the repeated ticks go on deleting the records whose deletion does not
\* fail, whichever other records keep failing: the usage comes back under the
\* quota or no deletable record is left.
FailuresNeverBlock ==
  (UsedGb(files) > cfg.max_storage_gb /\ DeletableRecords # {}) ~>
    (UsedGb(files) <= cfg.max_storage_gb \/ DeletableRecords = {})

\* C29: capture-loop step 3.  A running worker whose connection opened and
\* delivers no frame eventually discards the connection and goes back to the
\* connect step (or is stopped).
SilentConnectionDiscarded ==
  \A o \in StreamObjs :
    (strm[o].loop = "run" /\ strm[o].is_running /\ strm[o].capture = "mute") ~>
      (strm[o].capture = "none" \/ ~strm[o].is_running \/ strm[o].loop # "run")

\* C30: a manifest line read mid-write is deferred.  A step of a monitor loop on a
\* line the writer has not finished changes no record and does not mark the line
\* processed.
TornLineDeferred ==
  [][\A t \in Threads :
       (/\ mon[t].pc \in {"tail", "save"}
        /\ mon'[t] # mon[t]
        /\ mon[t].i \in DOMAIN manifest[rec[mon[t].obj].cam]
        /\ ~manifest[rec[mon[t].obj].cam][mon[t].i].eol)
       => ledger' = ledger /\ mon'[t].processed = mon[t].processed]_vars

\* C31: an error on one manifest line does not abort the tailing.  Every
\* well-formed line of a recording camera's manifest is eventually taken up by its
\* monitor loop (registered, or at least attempted and marked processed), whatever
\* lines precede it.
BadLineSkipped ==
  \A c \in Cams :
    (\E i \in DOMAIN manifest[c] : manifest[c][i] = Row(Filename(camname[c], 1), 0, cfg.segment_duration))
      ~> (\/ ExistsByFilename(ledger, Filename(camname[c], 1))
          \/ \E t \in Threads : Alive(t) /\ Filename(camname[c], 1) \in mon[t].processed)

\* C32: the stream-health check is observational.  The check leaves the stream
\* registry, every stream worker and the recording registry with its sessions as
\* they are; it changes nothing but the alert list, to which it only adds
\* stream_dead alerts.
StreamCheckObserves ==
  [][fs.pc = "stream" /\ fs'.pc = "sleep" =>
       /\ streams' = streams /\ strm' = strm /\ scall' = scall
       /\ recorders' = recorders /\ rec' = rec /\ mon' = mon
       /\ ledger' = ledger /\ files' = files /\ desired' = desired
       /\ \E n \in 0..Cardinality(Cams) :
            /\ Len(alerts') = Len(alerts) + n
            /\ SubSeq(alerts', 1, Len(alerts)) = alerts
            /\ \A i \in (Len(alerts) + 1)..Len(alerts') : alerts'[i].type = "stream_dead"]_vars

\* A check has just found a stream in the registry that is not alive, and the
\* stream is still there
StreamCheckObservesWitness ==
  /\ fs.pc = "sleep"
  /\ alerts # <<>>
  /\ alerts[Len(alerts)].type = "stream_dead"
  /\ streams[alerts[Len(alerts)].camera] # 0
  /\ ~is_alive(streams[alerts[Len(alerts)].camera])

\* C33: dead streams are reported.  A stream-health check emits a stream_dead
\* alert for every camera that should stream and whose is_streaming is false, a
\* camera without a stream in the registry included.
DeadStreamAlerted ==
  [][fs.pc = "stream" /\ fs'.pc = "sleep" =>
       \A c \in Cams : desired[c] /\ ~is_streaming(c) =>
         \E i \in 1..Len(alerts') :
           /\ i > Len(alerts') - Cardinality({d \in Cams : desired[d] /\ ~is_streaming(d)})
           /\ alerts'[i] = [type |-> "stream_dead", camera |-> c]]_vars

\* C34: every launch uses the current settings.  Whenever an encode process is
\* launched, its segment duration is the one the settings hold at that moment;
\* for the launch inside CameraRecorder.start (explicit start, restart_all) it may
\* also be the one start() read just before launching.
LaunchUsesCurrentSettings ==
  [][\A o \in Objs : rec[o].process # "run" /\ rec'[o].process = "run" =>
       \/ rec'[o].segment_duration = cfg.segment_duration
       \/ ctl.pc = "launch" /\ ctl.obj = o]_vars

\* C35: disk pressure is surfaced.  A disk check that finds the free space below
\* the floor or the usage above the quota adds an alert to the alert list.
DiskPressureAlerted ==
  [][/\ fs.pc = "disk" /\ fs'.pc = "orphan"
     /\ FreeGb(files) < CriticalFloorGb \/ UsedGb(files) > cfg.max_storage_gb
     => /\ alerts' # alerts
        /\ alerts' # <<>>
        /\ alerts'[Len(alerts')].type \notin {"stream_dead", "recording_recovered",
                                              "recording_failed"}]_vars

\* C36: no zombie session.  With no start, stop or restart in progress, a camera
\* in the recording registry has a session that is recording with its monitor
\* loop alive.
NoZombieSession ==
  ctl.pc = "idle" =>
    \A c \in Cams : recorders[c] # 0 =>
      rec[recorders[c]].is_recording /\ ThreadAlive(recorders[c])

\* C37: one monitor loop and one encode process per recorder.  Whatever starts,
\* stops, restarts and crashes happened, no CameraRecorder has two live monitor
\* loops, and none has an encode process running beside one it launched earlier
\* and lost track of while it was alive.
OneLoopOneProcess ==
  \A o \in Objs :
    /\ Cardinality({t \in Threads : Alive(t) /\ mon[t].obj = o}) <= 1
    /\ ~(rec[o].stray /\ rec[o].process = "run")

\* C38: recording_recovered means a session was started.  When the
\* recording-health check emits recording_recovered for a camera (in a tick where
\* no launch failed), the camera had no session before the step and has a new one,
\* recording, after it.
RecoveredMeansStarted ==
  [][/\ fs.pc = "health" /\ fs.todo # {} /\ ~fs'.failed
     /\ alerts' = add_alert(alerts, [type |-> "recording_recovered",
                                      camera |-> Lowest(fs.todo)])
     => /\ recorders[Lowest(fs.todo)] = 0
        /\ recorders'[Lowest(fs.todo)] # 0
        /\ rec'[recorders'[Lowest(fs.todo)]].is_recording]_vars

\* C39: no manifest line is lost.  A monitor loop marks a filename processed only
\* with a record for it in the ledger: when the create of _save_recording_db
\* fails, the line stays unprocessed for a later pass.
FailedCreateRetried ==
  [][\A t \in Threads :
       mon[t].pc = "save" /\ mon'[t] # mon[t] =>
         \A n \in mon'[t].processed \ mon[t].processed : ExistsByFilename(ledger', n)]_vars

\* C40: no record for a segment that is still being written.  Every record of a
\* camera's segment file has its filename listed in that camera's manifest: the
\* orphan check, run beside a recording session, registers no file the encode
\* process has not closed yet.
RecordOnlyAfterManifest ==
  \A r \in ledger :
    r.camera \in Cams =>
      \E i \in DOMAIN manifest[r.camera] : manifest[r.camera][i].name = r.filename

====
